---- MODULE Spec2Model ----
(***************************************************************************)
(* Model of the EmbedThis updater: the update() orchestration of           *)
(* src/src/updater.c together with its minimal HTTPS client (fetch),       *)
(* the json() field scanner, the to-file download and the checksum check.  *)
(*                                                                         *)
(* C strings are sequences of one-character strings.  A NULL pointer is    *)
(* the one-element sequence <<"NULL">>, which no C string can equal since  *)
(* every element of a C string is a single character.                      *)
(*                                                                         *)
(* The environment decides the outcome of every system and library call    *)
(* (socket, DNS, connect, TLS setup and handshake, reads, writes, open,    *)
(* the script) and what the servers answer.  Memory allocation is taken    *)
(* to succeed.  Three history variables record a run: ops (the calls       *)
(* made), sent (the requests handed to SSL_write, each with the session    *)
(* it went to) and steps (the steps of update() that completed).           *)
(***************************************************************************)
EXTENDS Integers, Sequences, FiniteSets, TLC

(* ---- program constants ------------------------------------------------ *)
SERVER_PORT == 443
UBSIZE == 4096
HEADERS_SIZE == 256
REPORT_URL_SIZE == 256
MAX_CONTENT_LENGTH == 100 * 1024 * 1024
INT_BITS == 32

(* ---- bounds of the model ---------------------------------------------- *)
\* in how many arguments a run may differ from the plain valid call
MaxVaried == 1
\* number of digest bytes the message digest yields (SHA-256 yields 32)
MdLen == 2
\* by how many bytes a read may fall short of the bytes that are pending
MaxChunk == 2
\* how many characters follow the key in the texts json() is applied to
MaxTail == 4
\* how many times another process changes the entry at the destination path
\* while fetchFile() opens and writes the file
MaxMoves == 2

NULL == <<"NULL">>

(* ---- string literals of the source ------------------------------------ *)
s_https == <<"h", "t", "t", "p", "s", ":", "/", "/">>
s_checkPath == <<"/", "t", "o", "k", "/", "p", "r", "o", "v", "i", "s", "i", "o", "n", "/", "u", "p", "d", "a", "t", "e">>
s_reportPath == <<"/", "t", "o", "k", "/", "p", "r", "o", "v", "i", "s", "i", "o", "n", "/", "u", "p", "d", "a", "t", "e", "R", "e", "p", "o", "r", "t">>
s_authHdr == <<"C", "o", "n", "t", "e", "n", "t", "-", "T", "y", "p", "e", ":", " ", "a", "p", "p", "l", "i", "c", "a", "t", "i", "o", "n", "/", "j", "s", "o", "n", "\r", "\n", "A", "u", "t", "h", "o", "r", "i", "z", "a", "t", "i", "o", "n", ":", " ">>
s_crlf == <<"\r", "\n">>
s_accept == <<"A", "c", "c", "e", "p", "t", ":", " ", "*", "/", "*", "\r", "\n">>
s_http11 == <<"H", "T", "T", "P", "/", "1", ".", "1", " ">>
s_sep == <<"\r", "\n", "\r", "\n">>
s_contentLength == <<"C", "o", "n", "t", "e", "n", "t", "-", "L", "e", "n", "g", "t", "h">>
s_tmp == <<"/", "t", "m", "p", "/">>
s_POST == <<"P", "O", "S", "T">>
s_GET == <<"G", "E", "T">>
k_url == <<"u", "r", "l">>
k_checksum == <<"c", "h", "e", "c", "k", "s", "u", "m">>
k_update == <<"u", "p", "d", "a", "t", "e">>
k_version == <<"v", "e", "r", "s", "i", "o", "n">>

(* ---- C string helpers -------------------------------------------------- *)
Min(S) == CHOOSE x \in S : \A y \in S : x <= y

\* strlen(s) for a non-NULL string
StrLen(s) == Len(s)

\* strncmp(s, p, strlen(p)) == 0
StartsWith(s, p) == Len(s) >= Len(p) /\ SubSeq(s, 1, Len(p)) = p

\* strstr(s, p): index of the first occurrence of p in s, 0 when absent
strstr[s \in Seq(STRING), p \in Seq(STRING)] ==
    LET hits == {i \in 1..(Len(s) - Len(p) + 1) :
                    (p = <<>> \/ s[i] = p[1]) /\ SubSeq(s, i, i + Len(p) - 1) = p}
    IN  IF hits = {} THEN 0 ELSE Min(hits)
StrStr(s, p) == strstr[s, p]

\* strchr(s, c): index of the first c in s, 0 when absent
strchr[s \in Seq(STRING), c \in STRING] ==
    LET hits == {i \in 1..Len(s) : s[i] = c}
    IN  IF hits = {} THEN 0 ELSE Min(hits)
StrChr(s, c) == strchr[s, c]

\* the tail of s from index i (the C pointer s + (i - 1))
From(s, i) == SubSeq(s, i, Len(s))

\* snprintf(buf, size, ...): the bytes stored when the formatted text is s
Truncate(s, size) == IF Len(s) >= size THEN SubSeq(s, 1, size - 1) ELSE s

Digits == <<"0", "1", "2", "3", "4", "5", "6", "7", "8", "9">>
IsDigit(c) == \E i \in 1..10 : Digits[i] = c
DigitVal(c) == (CHOOSE i \in 1..10 : Digits[i] = c) - 1
IsSpace(c) == c \in {" ", "\t", "\n", "\r", "\f"}

\* "%d" of a non-negative int
RECURSIVE Itoa(_)
Itoa(n) == IF n < 10 THEN <<Digits[n + 1]>> ELSE Itoa(n \div 10) \o <<Digits[(n % 10) + 1]>>

\* atoi(s): skip white space, optional sign, then the longest run of digits.
\* The value is accumulated as a long and converted to int, which keeps the
\* low INT_BITS bits; the two 16-bit halves keep the arithmetic exact.
shift[v \in Nat \X Nat, d \in 0..9] ==
    LET half == 2 ^ (INT_BITS \div 2)
        lo == v[2] * 10 + d
        hi == v[1] * 10 + (lo \div half)
    IN  <<hi % half, lo % half>>
atoiAt[s \in Seq(STRING), b \in Nat] ==
    LET neg == b <= Len(s) /\ s[b] = "-"
        d0 == IF b <= Len(s) /\ s[b] \in {"-", "+"} THEN b + 1 ELSE b
        run == {i \in d0..Len(s) : \A j \in d0..i : IsDigit(s[j])}
        d1 == d0 + Cardinality(run) - 1
        half == 2 ^ (INT_BITS \div 2)
        val[i \in (d0 - 1)..d1] ==
            IF i < d0 THEN <<0, 0>> ELSE shift[val[i - 1], DigitVal(s[i])]
        hi == val[d1][1]
        lo == val[d1][2]
        v == IF hi >= half \div 2 THEN (hi - half) * half + lo ELSE hi * half + lo
    IN  IF neg /\ v # (0 - half \div 2) * half THEN 0 - v ELSE v
atoi[s \in Seq(STRING)] ==
    LET ws == {i \in 1..Len(s) : \A j \in 1..i : IsSpace(s[j])}
    IN  atoiAt[s, Cardinality(ws) + 1]

Atoi(s) == atoi[s]

\* the number atoi(s) reads does not fit an int: the conversion is undefined
\* then, and what it yields depends on the C library and the width of long
s_intMax == <<"2", "1", "4", "7", "4", "8", "3", "6", "4", "7">>
atoiOverflows[s \in Seq(STRING)] ==
    LET ws == {i \in 1..Len(s) : \A j \in 1..i : IsSpace(s[j])}
        b == Cardinality(ws) + 1
        neg == b <= Len(s) /\ s[b] = "-"
        d0 == IF b <= Len(s) /\ s[b] \in {"-", "+"} THEN b + 1 ELSE b
        run == {i \in d0..Len(s) : \A j \in d0..i : IsDigit(s[j])}
        zeros == {i \in d0..Len(s) : \A j \in d0..i : s[j] = "0"}
        sig == SubSeq(s, d0 + Cardinality(zeros), d0 + Cardinality(run) - 1)
        beyond == \E i \in 1..10 : /\ DigitVal(sig[i]) > DigitVal(s_intMax[i])
                                    /\ \A j \in 1..(i - 1) : sig[j] = s_intMax[j]
    IN  \/ Len(sig) > 10
        \/ Len(sig) = 10 /\ beyond /\ ~(neg /\ sig = <<"2", "1", "4", "7", "4", "8", "3", "6", "4", "8">>)

(* ---- parseUrl, request and response formats ----------------------------- *)
\* parseUrl: the host starts after the first "https://" if there is one, and
\* ends before the first '/' that follows; the path is what follows that '/'
parseUrl(url) ==
    LET i == StrStr(url, s_https)
        host == IF i # 0 THEN From(url, i + 8) ELSE url
        j == StrChr(host, "/")
    IN  IF j # 0 THEN [host |-> SubSeq(host, 1, j - 1), path |-> From(host, j + 1)]
        ELSE [host |-> host, path |-> <<>>]

\* the check request of update(): url, body and headers as formatted
CheckUrl(host) == host \o s_checkPath
CheckBody(device, product, version, properties) ==
    <<"{", "\"", "i", "d", "\"", ":", "\"">> \o device \o <<"\"", ",", "\"", "p", "r", "o", "d", "u", "c", "t", "\"", ":", "\"">> \o product \o <<"\"", ",", "\"", "v", "e", "r", "s", "i", "o", "n", "\"", ":", "\"">> \o version
    \o <<"\"">> \o (IF properties # NULL THEN <<",">> \o properties ELSE <<>>) \o <<"}">>
AuthHeaders(token) == s_authHdr \o token \o s_crlf

\* ReportBody had it taken every status run() gets from a script that ran
\* for a success
ReportBody_anyExit(status, device, update) ==
    <<"{", "\"", "s", "u", "c", "c", "e", "s", "s", "\"", ":">> \o (IF status >= 0 THEN <<"t", "r", "u", "e">> ELSE <<"f", "a", "l", "s", "e">>)
    \o <<",", "\"", "i", "d", "\"", ":", "\"">> \o device \o <<"\"", ",", "\"", "u", "p", "d", "a", "t", "e", "\"", ":", "\"">> \o update \o <<"\"", "}">>

\* the report request of postReport()
ReportBody(status, device, update) ==
    <<"{", "\"", "s", "u", "c", "c", "e", "s", "s", "\"", ":">> \o (IF status = 0 THEN <<"t", "r", "u", "e">> ELSE <<"f", "a", "l", "s", "e">>)
    \o <<",", "\"", "i", "d", "\"", ":", "\"">> \o device \o <<"\"", ",", "\"", "u", "p", "d", "a", "t", "e", "\"", ":", "\"">> \o update \o <<"\"", "}">>
ReportUrl(host) == host \o s_reportPath

\* sendHttpRequest: the request bytes left in the UBSIZE buffer by snprintf
HttpRequest(method, path, host, headers, body) ==
    Truncate(method \o <<" ", "/">> \o path \o <<" ", "H", "T", "T", "P", "/", "1", ".", "1", "\r", "\n">>
             \o <<"H", "o", "s", "t", ":", " ">> \o host \o s_crlf
             \o <<"C", "o", "n", "t", "e", "n", "t", "-", "L", "e", "n", "g", "t", "h", ":", " ">> \o Itoa(IF body # NULL THEN StrLen(body) ELSE 0) \o s_crlf
             \o headers \o s_crlf
             \o (IF body # NULL THEN body ELSE <<>>), UBSIZE)

\* fetchHeader: the value of header key in the header block, NULL if the key
\* or the line end after it is not found
fetchHeader(response, key) ==
    LET kbuf == Truncate(key \o <<":">>, 80)
        start == StrStr(response, kbuf)
        rest == From(response, start)
        end == StrStr(rest, s_crlf)
        line == SubSeq(rest, Len(kbuf) + 1, end - 1)
        sp == {i \in 1..Len(line) : \A j \in 1..i : IsSpace(line[j])}
    IN  IF start = 0 THEN NULL
        ELSE IF end = 0 THEN NULL
        ELSE From(line, Cardinality(sp) + 1)

\* readAndValidateResponse on the bytes of the first read: the status it
\* parses, or -1 when the response does not start with "HTTP/1.1 "
ResponseStatus(response) ==
    IF ~StartsWith(response, s_http11) THEN -1
    ELSE Atoi(From(response, StrChr(response, " ") + 1))

\* parseResponseBody had it only refused a negative length
parseResponseBody_noLimit(response) ==
    LET data == StrStr(response, s_sep)
        header == fetchHeader(SubSeq(response, 1, data - 1), s_contentLength)
        contentLength == Atoi(header)
        headerBytes == data + 3
        fail == [ok |-> FALSE, contentLength |-> 0, bodyLength |-> 0, body |-> NULL]
    IN  IF data = 0 THEN fail
        ELSE IF header = NULL THEN fail
        ELSE IF contentLength < 0 THEN fail
        ELSE IF Len(response) > headerBytes
             THEN [ok |-> TRUE, contentLength |-> contentLength,
                   bodyLength |-> Len(response) - headerBytes,
                   body |-> From(response, headerBytes + 1)]
             ELSE [ok |-> TRUE, contentLength |-> contentLength, bodyLength |-> 0, body |-> NULL]

\* parseResponseBody on the bytes of the first read: ok is FALSE when it
\* returns -1, otherwise the fields it stores in the Fetch structure
parseResponseBody(response) ==
    LET data == StrStr(response, s_sep)
        header == fetchHeader(SubSeq(response, 1, data - 1), s_contentLength)
        contentLength == Atoi(header)
        headerBytes == data + 3
        fail == [ok |-> FALSE, contentLength |-> 0, bodyLength |-> 0, body |-> NULL]
    IN  IF data = 0 THEN fail
        ELSE IF header = NULL THEN fail
        ELSE IF contentLength < 0 \/ contentLength > MAX_CONTENT_LENGTH THEN fail
        ELSE IF Len(response) > headerBytes
             THEN [ok |-> TRUE, contentLength |-> contentLength,
                   bodyLength |-> Len(response) - headerBytes,
                   body |-> From(response, headerBytes + 1)]
             ELSE [ok |-> TRUE, contentLength |-> contentLength, bodyLength |-> 0, body |-> NULL]

\* what parseResponseBody may return: for a Content-Length that does not fit
\* an int either what the low INT_BITS bits of the number give (glibc on
\* LP64, where atoi is (int) strtol) or -1, because strtol with a long of
\* INT_BITS bits yields LONG_MAX, which is beyond the ceiling
parseResponseBodyResults(response) ==
    LET data == StrStr(response, s_sep)
        header == fetchHeader(SubSeq(response, 1, data - 1), s_contentLength)
    IN  {parseResponseBody(response)}
        \cup (IF data # 0 /\ header # NULL /\ atoiOverflows[header]
              THEN {[ok |-> FALSE, contentLength |-> 0, bodyLength |-> 0, body |-> NULL]} ELSE {})

(* ---- json: the flat field scanner --------------------------------------- *)
jsonValue[jsonText \in Seq(STRING), value \in Nat] ==
    LET quoted == value <= Len(jsonText) /\ jsonText[value] = "\""
        start == IF quoted THEN value + 1 ELSE value
        stop(c) == IF quoted THEN c = "\"" ELSE c \in {",", "}"}
        run == {i \in start..Len(jsonText) : \A j \in start..i : ~stop(jsonText[j])}
    IN  SubSeq(jsonText, start, start + Cardinality(run) - 1)
\* json had the key buffer held the key and the colon only
json_bareKey(jsonText, key) ==
    LET keybuf == key \o <<"\"", ":">>
        keyPos == StrStr(jsonText, keybuf)
    IN  IF Len(keybuf) >= 80 THEN NULL
        ELSE IF keyPos = 0 THEN NULL
        ELSE jsonValue[jsonText, keyPos + Len(keybuf)]
json(jsonText, key) ==
    LET keybuf == <<"\"">> \o key \o <<"\"", ":">>
        keyPos == StrStr(jsonText, keybuf)
    IN  IF Len(keybuf) >= 80 THEN NULL
        ELSE IF keyPos = 0 THEN NULL
        ELSE jsonValue[jsonText, keyPos + Len(keybuf)]

(* ---- getFileSum --------------------------------------------------------- *)
\* the byte values of the characters an image is made of
ByteChars == <<"o", "x", "y", "z", "{", "}">>
Ord(c) == 110 + (CHOOSE i \in 1..Len(ByteChars) : ByteChars[i] = c)

\* The message digest of OpenSSL, which is not code of this repository: a
\* stand-in that yields MdLen bytes and tells the images of the model apart
EVP_Digest(data) ==
    LET acc[j \in 0..Len(data)] ==
            IF j = 0 THEN [i \in 1..MdLen |-> 7 * i]
            ELSE [i \in 1..MdLen |-> (acc[j - 1][i] * 31 + Ord(data[j]) * (i + j)) % 256]
    IN  acc[Len(data)]

HexDigits == <<"0", "1", "2", "3", "4", "5", "6", "7", "8", "9", "a", "b", "c", "d", "e", "f">>

\* "%02x" of one byte
Hex02(b) == <<HexDigits[(b \div 16) + 1], HexDigits[(b % 16) + 1]>>

\* the loop of getFileSum that renders the digest into sum
RECURSIVE HexOf(_)
HexOf(hash) == IF hash = <<>> THEN <<>> ELSE Hex02(Head(hash)) \o HexOf(Tail(hash))

getFileSum(data) == HexOf(EVP_Digest(data))

(* ---- the caller's arguments --------------------------------------------- *)
Hosts == {NULL, <<>>, s_https \o <<"b">>, <<"h", "t", "t", "p", ":", "/", "/", "b">>, <<"b">>}
Products == {NULL, <<>>, <<"p">>}
Tokens == {NULL, <<>>, <<"t">>}
Devices == {NULL, <<>>, <<"d">>}
Versions == {NULL, <<>>, <<"1">>}
Properties == {NULL, <<"\"", "k", "\"", ":", "\"", "v", "\"">>}
Paths == {NULL, <<>>, <<"f">>}
Scripts == {NULL, <<"s">>}

Required(a) == <<a.host, a.product, a.token, a.device, a.version, a.path>>

\* a plain call, and the calls that differ from it in at most MaxVaried
\* arguments; an entry already at the destination path counts as one
PlainArgs ==
    [host |-> s_https \o <<"b">>, product |-> <<"p">>, token |-> <<"t">>, device |-> <<"d">>,
     version |-> <<"1">>, properties |-> NULL, path |-> <<"f">>, script |-> <<"s">>,
     verbose |-> 0, quiet |-> 0]
Varied(a) == {f \in DOMAIN PlainArgs : a[f] # PlainArgs[f]}

Args ==
    {a \in [host : Hosts, product : Products, token : Tokens, device : Devices,
            version : Versions, properties : Properties, path : Paths,
            script : Scripts, verbose : {0, 1}, quiet : {0, 1}] : Cardinality(Varied(a)) <= MaxVaried}

(* ---- the environment: the servers and the file system ------------------- *)
GoodImage == <<"x", "y", "z">>
BadImage == <<"x", "z", "y">>
DownloadUrl == s_https \o <<"c", "/", "i">>
InsecureUrl == <<"h", "t", "t", "p", ":", "/", "/", "c", "/">> \o s_https \o <<"e", "/", "i">>

f_url(u) == <<"\"", "u", "r", "l", "\"", ":", "\"">> \o u \o <<"\"">>
f_checksum == <<"\"", "c", "h", "e", "c", "k", "s", "u", "m", "\"", ":", "\"">> \o getFileSum(GoodImage) \o <<"\"">>
f_update == <<"\"", "u", "p", "d", "a", "t", "e", "\"", ":", "\"", "u", "\"">>
f_version == <<"\"", "v", "e", "r", "s", "i", "o", "n", "\"", ":", "\"", "2", "\"">>
Obj(fields) == <<"{">> \o fields \o <<"}">>

NoUpdateBody == Obj(<<"\"", "a", "\"", ":", "\"", "1", "\"">>)
FullBody == Obj(f_url(DownloadUrl) \o <<",">> \o f_checksum \o <<",">> \o f_update \o <<",">> \o f_version)
InsecureBody == Obj(f_url(InsecureUrl) \o <<",">> \o f_checksum \o <<",">> \o f_update \o <<",">> \o f_version)
NoChecksumBody == Obj(f_url(DownloadUrl) \o <<",">> \o f_update \o <<",">> \o f_version)
NoUpdateIdBody == Obj(f_url(DownloadUrl) \o <<",">> \o f_checksum \o <<",">> \o f_version)
NoVersionBody == Obj(f_url(DownloadUrl) \o <<",">> \o f_checksum \o <<",">> \o f_update)

EmptyObject == Obj(<<>>)

ServerBodies(ph) ==
    CASE ph = "check" -> {NoUpdateBody, FullBody, InsecureBody, NoChecksumBody, NoUpdateIdBody, NoVersionBody}
      [] ph = "download" -> {GoodImage, BadImage}
      [] OTHER -> {EmptyObject}

h_ok == s_http11 \o <<"2", "0", "0", " ", "O", "K", "\r", "\n">>
h_close == <<"C", "o", "n", "n", "e", "c", "t", "i", "o", "n", ":", " ", "c", "l", "o", "s", "e">>
HeadOk(n) == h_ok \o s_contentLength \o <<":", " ">> \o Itoa(n) \o s_crlf \o h_close \o s_sep
HeadLengthLast(n) == h_ok \o h_close \o s_crlf \o s_contentLength \o <<":", " ">> \o Itoa(n) \o s_sep
HeadUnauthorized == s_http11 \o <<"4", "0", "1", " ", "U", "n", "a", "u", "t", "h", "o", "r", "i", "z", "e", "d", "\r", "\n", "C", "o", "n", "t", "e", "n", "t", "-", "L", "e", "n", "g", "t", "h", ":", " ", "0", "\r", "\n">> \o h_close \o s_sep
HeadOldProto == <<"H", "T", "T", "P", "/", "1", ".", "0", " ", "2", "0", "0", " ", "O", "K", "\r", "\n", "C", "o", "n", "t", "e", "n", "t", "-", "L", "e", "n", "g", "t", "h", ":", " ", "0", "\r", "\n">> \o h_close \o s_sep
HeadNoLength == h_ok \o h_close \o s_sep
HeadNoSeparator == h_ok \o s_contentLength \o <<":", " ", "0", "\r", "\n">>
HeadRedirect == s_http11 \o <<"3", "0", "2", " ", "F", "o", "u", "n", "d", "\r", "\n", "L", "o", "c", "a", "t", "i", "o", "n", ":", " ", "h", "t", "t", "p", "s", ":", "/", "/", "e", "/", "i", "\r", "\n", "C", "o", "n", "t", "e", "n", "t", "-", "L", "e", "n", "g", "t", "h", ":", " ", "0", "\r", "\n">> \o h_close \o s_sep
HeadServerError == s_http11 \o <<"5", "0", "0", " ", "I", "n", "t", "e", "r", "n", "a", "l", " ", "S", "e", "r", "v", "e", "r", " ", "E", "r", "r", "o", "r", "\r", "\n", "C", "o", "n", "t", "e", "n", "t", "-", "L", "e", "n", "g", "t", "h", ":", " ", "0", "\r", "\n">> \o h_close \o s_sep
HeadNegativeLength == h_ok \o s_contentLength \o <<":", " ", "-", "1", "\r", "\n">> \o h_close \o s_sep
\* a header whose name only ends in Content-Length
HeadForeignLength(n) == h_ok \o <<"X", "-">> \o s_contentLength \o <<":", " ">> \o Itoa(n) \o s_crlf \o h_close \o s_sep

\* a Content-Length header with the text v for its value
HeadLengthText(v) == h_ok \o s_contentLength \o <<":", " ">> \o v \o s_crlf \o h_close \o s_sep
\* values that are no decimal number within the ceiling: nothing, a word,
\* digits followed by a letter, 2^32 + 1
LengthTexts == {<<>>, <<"x">>, <<"2", "x">>, <<"4", "2", "9", "4", "9", "6", "7", "2", "9", "7">>}

\* responses at the edges of what fetch() takes; every exchange runs the same
\* fetch(), and the check server is the one that gives them
EdgeResponses ==
    {[head |-> h, body |-> <<>>] : h \in {HeadRedirect, HeadServerError, HeadNegativeLength}}
    \cup {[head |-> HeadOk(n), body |-> <<>>] : n \in {MAX_CONTENT_LENGTH, MAX_CONTENT_LENGTH + 1}}
    \cup {[head |-> HeadForeignLength(Len(EmptyObject)), body |-> EmptyObject]}
    \cup {[head |-> HeadOk(Len(EmptyObject) - 1), body |-> EmptyObject]}
    \cup {[head |-> HeadLengthText(v), body |-> EmptyObject] : v \in LengthTexts}

\* the responses a server may give in phase ph: the header block and the body
ServerResponses(ph) ==
    {[head |-> HeadOk(Len(b)), body |-> b] : b \in ServerBodies(ph)}
    \cup {[head |-> HeadLengthLast(Len(b)), body |-> b] : b \in ServerBodies(ph)}
    \cup {[head |-> h, body |-> <<>>] : h \in {HeadUnauthorized, HeadOldProto, HeadNoLength, HeadNoSeparator}}
    \cup (IF ph = "check" THEN EdgeResponses ELSE {})
NoResponse == [head |-> <<>>, body |-> <<>>]

\* the servers whose descriptor declares the checksum of the image as
\* getFileSum renders it, in capital letters, a character short, a character
\* long, or with a space before or after it
Upper(s) ==
    [i \in 1..Len(s) |->
        CASE s[i] = "a" -> "A" [] s[i] = "b" -> "B" [] s[i] = "c" -> "C"
          [] s[i] = "d" -> "D" [] s[i] = "e" -> "E" [] s[i] = "f" -> "F" [] OTHER -> s[i]]
SumsDeclared ==
    LET sum == getFileSum(GoodImage)
    IN  {sum, Upper(sum), SubSeq(sum, 1, Len(sum) - 1), sum \o <<"0">>, <<" ">> \o sum, sum \o <<" ">>}
SumBodies ==
    {Obj(f_url(DownloadUrl) \o <<",", "\"", "c", "h", "e", "c", "k", "s", "u", "m", "\"", ":", "\"">> \o c
         \o <<"\"", ",">> \o f_update \o <<",">> \o f_version) : c \in SumsDeclared}
SumResponses == {[head |-> HeadOk(Len(b)), body |-> b] : b \in SumBodies}

\* the download servers that keep the connection open after the body, as
\* HTTP/1.1 does when the request carries no "Connection: close"
h_keep == <<"C", "o", "n", "n", "e", "c", "t", "i", "o", "n", ":", " ", "k", "e", "e", "p", "-", "a", "l", "i", "v", "e">>
HeadKeepAlive(n) == h_ok \o s_contentLength \o <<":", " ">> \o Itoa(n) \o s_crlf \o h_keep \o s_sep
KeepAliveResponses == {[head |-> HeadKeepAlive(Len(b)), body |-> b] : b \in ServerBodies("download")}

\* how many bytes of head \o body the first read may deliver
FirstReadSizes(r, buflen) ==
    LET all == Len(r.head) + Len(r.body)
        cap(n) == IF n > buflen THEN buflen ELSE n
    IN  {cap(Len(r.head)), cap(IF Len(r.head) + MaxChunk > all THEN all ELSE Len(r.head) + MaxChunk), cap(all)}

\* how many bytes a later read may deliver when avail bytes are pending: all
\* that fits the buffer, or up to MaxChunk bytes fewer
ReadSizes(avail, buflen) ==
    LET m == IF avail > buflen THEN buflen ELSE avail
    IN  {n \in 1..m : n + MaxChunk >= m}

\* an entry of the file system: nothing, a regular file with its bytes, or a
\* symbolic link. A link that dangles has no data; a link to a file has the
\* bytes that file holds when the run starts
NoFile == [kind |-> "none", data |-> <<>>, mode |-> 0]
RegFile(d, m) == [kind |-> "reg", data |-> d, mode |-> m]
SymLink == [kind |-> "symlink", data |-> <<>>, mode |-> 511]
LinkToFile == [kind |-> "symlink", data |-> <<"o">>, mode |-> 511]
InitialFiles == {NoFile, RegFile(<<"o">>, 420), SymLink, LinkToFile}
\* the file a link at the destination path points to when the run starts
TargetOf(e) == IF e.kind = "symlink" /\ e.data # <<>> THEN RegFile(e.data, 420) ELSE NoFile

\* exit statuses of the apply script as run() returns them
RunResults == {0, 1, 127, -1}

(* ---- state --------------------------------------------------------------- *)
VARIABLES
    args,           \* the arguments of update()
    pc,             \* the position of the run
    rc,             \* update(): rc
    phase,          \* which exchange runs: "check", "download" or "report"
    req,            \* the arguments of the current fetch() call
    fhost, fpath,   \* fetch(): host and path as parsed from the url
    fp,             \* the Fetch structure of the current exchange
    wire,           \* bytes the server has yet to deliver on the connection
    srv,            \* the response each server chose, by phase
    rbuf,           \* fetch(): the bytes of the first read, in response, while fetch() runs
    buf,            \* fetchString(): the bytes accumulated in body
    response, downloadUrl, checksum, update, updateVersion,
    fs, fs0,        \* the entry at the destination path, now and at the start
    target,         \* the file a symbolic link at the destination path points to
    fdOpen,         \* fetchFile(): the destination file descriptor is open
    status,         \* the result of applyUpdate()
    sent,           \* the requests written, each with the session it went to
    steps,          \* the steps of update() completed so far, in order
    ops,            \* the system and library calls made, in order
    out,            \* the text written to standard output and standard error, in order
    twin,           \* the run under other flags that a run is compared with step by step
    cli,            \* the command line program that calls update(): its arguments, globals and exit
    pure            \* a function of the program applied on its own: its arguments and results

vars == <<args, pc, rc, phase, req, fhost, fpath, fp, wire, srv, rbuf, buf, response,
          downloadUrl, checksum, update, updateVersion, fs, fs0, target, fdOpen, status, sent, steps, ops, out, twin, cli, pure>>

NoFetch == [live |-> FALSE, fd |-> -1, port |-> 0, ctx |-> FALSE, ssl |-> FALSE,
            verify |-> FALSE, vhost |-> NULL, connected |-> FALSE,
            contentLength |-> 0, bodyLength |-> 0, body |-> NULL, status |-> 0]
NoRequest == [method |-> NULL, url |-> NULL, headers |-> NULL, body |-> NULL]
\* no run is compared with this one
NoSnapshot == [args |-> NULL]
\* update() was called by a program other than the command line program
NoCli == [pc |-> "none"]
\* no function is applied on its own
NoCall == [fn |-> "none"]
NoTwin == [mode |-> "none", flags |-> <<0, 0>>, other |-> <<>>, pre |-> NoSnapshot, post |-> NoSnapshot]

Init ==
    /\ args \in Args
    /\ pc = "start"
    /\ rc = -1
    /\ phase = "none"
    /\ req = NoRequest
    /\ fhost = NULL /\ fpath = NULL
    /\ fp = NoFetch
    /\ wire = <<>>
    /\ srv = [check |-> NoResponse, download |-> NoResponse, report |-> NoResponse]
    /\ rbuf = <<>>
    /\ buf = <<>>
    /\ response = NULL /\ downloadUrl = NULL /\ checksum = NULL
    /\ update = NULL /\ updateVersion = NULL
    /\ fs0 \in InitialFiles
    /\ Cardinality(Varied(args)) + (IF fs0 = NoFile THEN 0 ELSE 1) <= MaxVaried
    /\ fs = fs0
    /\ target = TargetOf(fs0)
    /\ fdOpen = FALSE
    /\ status = 0
    /\ sent = <<>>
    /\ steps = <<>>
    /\ ops = <<>>
    /\ out = <<>>
    /\ twin = NoTwin
    /\ cli = NoCli
    /\ pure = NoCall

\* the log after the operations es, in order
LogAll(log, es) == log \o es

\* the log after the operations es of one turn of a loop that moves body
\* bytes: the log keeps one entry for all the turns of the loop
RECURSIVE LogLoop(_, _)
LogLoop(log, es) ==
    IF es = <<>> THEN log
    ELSE LogLoop(IF \E i \in 1..Len(log) : log[i] = Head(es) THEN log ELSE Append(log, Head(es)), Tail(es))

\* an entry of the log: the call and the exchange it belongs to. A call that
\* hands out a resource is logged under its name when it yields one and with
\* its failing result otherwise ("socket=-1", "SSL_CTX_new=NULL"); the
\* release of the body fragment is "free(body)", and "malloc" and "free" are
\* those of the Fetch structure
Op(name) == <<name, phase>>

\* fetchFree: the releases it performs for the Fetch structure f
fetchFree(f) ==
    (IF f.ssl THEN <<Op("SSL_free")>> ELSE <<>>)
    \o (IF f.ctx THEN <<Op("SSL_CTX_free")>> ELSE <<>>)
    \o (IF f.fd >= 0 THEN <<Op("closesocket")>> ELSE <<>>)
    \o (IF f.body # NULL THEN <<Op("free(body)")>> ELSE <<>>)
    \o <<Op("free")>>

locals == <<response, downloadUrl, checksum, update, updateVersion>>
exchange == <<req, fhost, fpath, fp, wire, srv, rbuf, buf>>
files == <<fs, fdOpen>>

\* the output after the texts ms of printf() statements under if (verbose)
Trace(o, ms) == IF args.verbose # 0 THEN o \o [i \in 1..Len(ms) |-> <<"stdout", ms[i]>>] ELSE o
\* the output after the texts ms of fprintf(stderr) and perror() statements
\* under if (!quiet); "OpenSSL errors" is what printSslErrors() prints
Error(o, ms) == IF args.quiet = 0 THEN o \o [i \in 1..Len(ms) |-> <<"stderr", ms[i]>>] ELSE o
s_ssl == "OpenSSL errors"

(* ---- update(): argument validation and the check request ----------------- *)
\* Update_Validate had it not looked at path
Update_Validate_pathUnchecked ==
    /\ pc = "start"
    /\ pc' = IF \E i \in 1..5 : Required(args)[i] = NULL THEN "cleanup" ELSE "format"
    /\ out' = IF \E i \in 1..5 : Required(args)[i] = NULL THEN Error(out, <<"Bad update args">>) ELSE out
    /\ UNCHANGED <<args, fs0, twin, cli, pure, target, rc, phase, exchange, locals, files, status, sent, steps, ops>>

Update_Validate ==
    /\ pc = "start"
    /\ pc' = IF \E i \in 1..6 : Required(args)[i] = NULL THEN "cleanup" ELSE "format"
    /\ out' = IF \E i \in 1..6 : Required(args)[i] = NULL THEN Error(out, <<"Bad update args">>) ELSE out
    /\ UNCHANGED <<args, fs0, twin, cli, pure, target, rc, phase, exchange, locals, files, status, sent, steps, ops>>

\* Update_FormatCheck had it taken text of exactly the size of the buffer
Update_FormatCheck_offByOne ==
    /\ pc = "format"
    /\ LET url == CheckUrl(args.host)
           body == CheckBody(args.device, args.product, args.version, args.properties)
           headers == AuthHeaders(args.token)
       IN  IF Len(url) > UBSIZE \/ Len(body) > UBSIZE \/ Len(headers) > HEADERS_SIZE
           THEN /\ pc' = "cleanup"
                /\ out' = Error(out, <<IF Len(url) > UBSIZE THEN "Host URL is too long"
                                        ELSE IF Len(body) > UBSIZE THEN "Request body is too long"
                                        ELSE "Headers buffer too small">>)
                /\ UNCHANGED <<req, phase>>
           ELSE /\ req' = [method |-> s_POST, url |-> Truncate(url, UBSIZE), headers |-> Truncate(headers, HEADERS_SIZE),
                           body |-> Truncate(body, UBSIZE)]
                /\ phase' = "check"
                /\ pc' = "fetch"
                /\ out' = Trace(out, <<"Check for update at">>)
    /\ UNCHANGED <<args, fs0, twin, cli, pure, target, rc, fhost, fpath, fp, wire, srv, rbuf, buf, locals, files, status, sent, steps, ops>>

Update_FormatCheck ==
    /\ pc = "format"
    /\ LET url == CheckUrl(args.host)
           body == CheckBody(args.device, args.product, args.version, args.properties)
           headers == AuthHeaders(args.token)
       IN  IF Len(url) >= UBSIZE \/ Len(body) >= UBSIZE \/ Len(headers) >= HEADERS_SIZE
           THEN /\ pc' = "cleanup"
                /\ out' = Error(out, <<IF Len(url) >= UBSIZE THEN "Host URL is too long"
                                        ELSE IF Len(body) >= UBSIZE THEN "Request body is too long"
                                        ELSE "Headers buffer too small">>)
                /\ UNCHANGED <<req, phase>>
           ELSE /\ req' = [method |-> s_POST, url |-> url, headers |-> headers, body |-> body]
                /\ phase' = "check"
                /\ pc' = "fetch"
                /\ out' = Trace(out, <<"Check for update at">>)
    /\ UNCHANGED <<args, fs0, twin, cli, pure, target, rc, fhost, fpath, fp, wire, srv, rbuf, buf, locals, files, status, sent, steps, ops>>

(* ---- fetch(): one exchange ------------------------------------------------ *)
fetch_parseUrl ==
    /\ pc = "fetch"
    /\ LET u == parseUrl(Truncate(req.url, UBSIZE))
       IN  fhost' = u.host /\ fpath' = u.path
    /\ out' = Trace(out, <<"Fetching">>)
    /\ pc' = "connect"
    /\ UNCHANGED <<args, fs0, twin, cli, pure, target, rc, phase, req, fp, wire, srv, rbuf, buf, locals, files, status, sent, steps, ops>>

\* fetch() returns NULL after the messages said: every caller gives up and
\* update() leaves its block with rc as it is; postReport() adds its message
FetchFails(released, said) ==
    /\ fp' = NoFetch
    /\ ops' = LogAll(ops, released)
    /\ out' = Error(out, said \o (IF phase = "report" THEN <<"Cannot post update-report">> ELSE <<>>))
    /\ pc' = "cleanup"

\* connectToHost had a refused connection been tried a second time
connectToHost_retry ==
    /\ pc = "connect"
    /\ \E r \in {"socket", "dns", "connect", "ok"} :
         LET f == [NoFetch EXCEPT !.live = TRUE]
         IN  CASE r = "socket" -> FetchFails(<<Op("malloc"), Op("socket=-1")>> \o fetchFree(f), <<"Cannot open socket">>)
               [] r = "dns" ->
                      FetchFails(<<Op("malloc"), Op("socket"), Op("gethostbyname"), Op("closesocket")>>
                                 \o fetchFree(f), <<"Cannot find host">>)
               [] r = "connect" ->
                      IF \E i \in 1..Len(ops) : ops[i] = Op("connect")
                      THEN FetchFails(<<Op("malloc"), Op("socket"), Op("gethostbyname"), Op("connect"),
                                        Op("closesocket")>> \o fetchFree(f), <<"Error connecting to host">>)
                      ELSE /\ fp' = NoFetch
                           /\ ops' = LogAll(ops, <<Op("malloc"), Op("socket"), Op("gethostbyname"), Op("connect"),
                                                   Op("closesocket")>> \o fetchFree(f))
                           /\ out' = Error(out, <<"Error connecting to host">>)
                           /\ pc' = "connect"
               [] OTHER ->
                      /\ fp' = [f EXCEPT !.fd = 3, !.port = SERVER_PORT]
                      /\ ops' = LogAll(ops, <<Op("malloc"), Op("socket"), Op("gethostbyname"), Op("connect")>>)
                      /\ pc' = "tls"
                      /\ UNCHANGED out
    /\ UNCHANGED <<args, fs0, twin, cli, pure, target, rc, phase, req, fhost, fpath, wire, srv, rbuf, buf, locals, files, status, sent, steps>>

connectToHost ==
    /\ pc = "connect"
    /\ \E r \in {"socket", "dns", "connect", "ok"} :
         LET f == [NoFetch EXCEPT !.live = TRUE]
         IN  CASE r = "socket" -> FetchFails(<<Op("malloc"), Op("socket=-1")>> \o fetchFree(f), <<"Cannot open socket">>)
               [] r = "dns" ->
                      FetchFails(<<Op("malloc"), Op("socket"), Op("gethostbyname"), Op("closesocket")>>
                                 \o fetchFree(f), <<"Cannot find host">>)
               [] r = "connect" ->
                      FetchFails(<<Op("malloc"), Op("socket"), Op("gethostbyname"), Op("connect"),
                                   Op("closesocket")>> \o fetchFree(f), <<"Error connecting to host">>)
               [] OTHER ->
                      /\ fp' = [f EXCEPT !.fd = 3, !.port = SERVER_PORT]
                      /\ ops' = LogAll(ops, <<Op("malloc"), Op("socket"), Op("gethostbyname"), Op("connect")>>)
                      /\ pc' = "tls"
                      /\ UNCHANGED out
    /\ UNCHANGED <<args, fs0, twin, cli, pure, target, rc, phase, req, fhost, fpath, wire, srv, rbuf, buf, locals, files, status, sent, steps>>

fetchAlloc ==
    /\ pc = "tls"
    /\ \E r \in {"ctx", "ca", "sethost", "ok"} :
         LET withCtx == [fp EXCEPT !.ctx = TRUE, !.verify = TRUE]
             withSsl == [withCtx EXCEPT !.ssl = TRUE]
         IN  CASE r = "ctx" -> FetchFails(<<Op("SSL_CTX_new=NULL")>> \o fetchFree(fp), <<"Unable to create SSL context", s_ssl>>)
               [] r = "ca" -> FetchFails(<<Op("SSL_CTX_new")>> \o fetchFree(withCtx),
                                          <<"Cannot load system CA certificates.", s_ssl>>)
               [] r = "sethost" -> FetchFails(<<Op("SSL_CTX_new"), Op("SSL_new")>> \o fetchFree(withSsl),
                                               <<"Failed to set hostname for verification", s_ssl>>)
               [] OTHER ->
                      /\ fp' = [withSsl EXCEPT !.vhost = fhost]
                      /\ ops' = LogAll(ops, <<Op("SSL_CTX_new"), Op("SSL_new")>>)
                      /\ pc' = "handshake"
                      /\ UNCHANGED out
    /\ UNCHANGED <<args, fs0, twin, cli, pure, target, rc, phase, req, fhost, fpath, wire, srv, rbuf, buf, locals, files, status, sent, steps>>

\* SSL_connect had fetchAlloc not looked at its result
SSL_connect_unchecked ==
    /\ pc = "handshake"
    /\ \E ok \in BOOLEAN :
         IF ok
         THEN /\ fp' = [fp EXCEPT !.connected = TRUE]
              /\ ops' = LogAll(ops, <<Op("SSL_connect")>>)
              /\ pc' = "send"
              /\ UNCHANGED out
         ELSE /\ ops' = LogAll(ops, <<Op("SSL_connect")>>)
              /\ pc' = "send"
              /\ out' = Error(out, <<s_ssl>>)
              /\ UNCHANGED fp
    /\ UNCHANGED <<args, fs0, twin, cli, pure, target, rc, phase, req, fhost, fpath, wire, srv, rbuf, buf, locals, files, status, sent, steps>>

SSL_connect ==
    /\ pc = "handshake"
    /\ \E ok \in BOOLEAN :
         IF ok
         THEN /\ fp' = [fp EXCEPT !.connected = TRUE]
              /\ ops' = LogAll(ops, <<Op("SSL_connect")>>)
              /\ pc' = "send"
              /\ UNCHANGED out
         ELSE FetchFails(<<Op("SSL_connect")>> \o fetchFree(fp), <<s_ssl>>)
    /\ UNCHANGED <<args, fs0, twin, cli, pure, target, rc, phase, req, fhost, fpath, wire, srv, rbuf, buf, locals, files, status, sent, steps>>

\* sendHttpRequest had fetch() not looked at its result
sendHttpRequest_unchecked ==
    /\ pc = "send"
    /\ \E ok \in BOOLEAN :
         /\ sent' = Append(sent, [phase |-> phase, fp |-> fp, ok |-> ok,
                                  request |-> HttpRequest(req.method, fpath, fhost, req.headers, req.body)])
         /\ ops' = LogAll(ops, <<Op("SSL_write")>>)
         /\ pc' = "read"
         /\ out' = IF ok THEN out ELSE Error(out, <<s_ssl>>)
         /\ UNCHANGED fp
    /\ UNCHANGED <<args, fs0, twin, cli, pure, target, rc, phase, req, fhost, fpath, wire, srv, rbuf, buf, locals, files, status, steps>>

sendHttpRequest ==
    /\ pc = "send"
    /\ \E ok \in BOOLEAN :
         /\ sent' = Append(sent, [phase |-> phase, fp |-> fp, ok |-> ok,
                                  request |-> HttpRequest(req.method, fpath, fhost, req.headers, req.body)])
         /\ IF ok
            THEN /\ ops' = LogAll(ops, <<Op("SSL_write")>>)
                 /\ pc' = "read"
                 /\ UNCHANGED <<fp, out>>
            ELSE FetchFails(<<Op("SSL_write")>> \o fetchFree(fp), <<s_ssl>>)
    /\ UNCHANGED <<args, fs0, twin, cli, pure, target, rc, phase, req, fhost, fpath, wire, srv, rbuf, buf, locals, files, status, steps>>

\* the responses the server of a run may give
Served(ph) ==
    IF pure.fn = "getFileSum" /\ ph = "check" THEN SumResponses
    ELSE IF pure.fn = "keep-alive" /\ ph = "download" THEN ServerResponses(ph) \cup KeepAliveResponses
    ELSE ServerResponses(ph)

\* readAndValidateResponse had it taken every status for a success
readAndValidateResponse_anyStatus ==
    /\ pc = "read"
    /\ \/ /\ FetchFails(<<Op("SSL_read")>> \o fetchFree(fp), <<s_ssl>>)
          /\ UNCHANGED <<wire, srv, rbuf>>
       \/ \E r \in Served(phase) : \E n \in FirstReadSizes(r, UBSIZE - 1) :
            LET all == r.head \o r.body
                got == SubSeq(all, 1, n)
            IN  /\ srv' = [srv EXCEPT ![phase] = r]
                /\ IF ResponseStatus(got) < 0
                   THEN /\ FetchFails(<<Op("SSL_read")>> \o fetchFree(fp),
                                      <<IF ResponseStatus(got) < 0 THEN "Bad response" ELSE "Bad response status">>)
                        /\ UNCHANGED <<wire, rbuf>>
                   ELSE /\ fp' = [fp EXCEPT !.status = 200]
                        /\ rbuf' = got
                        /\ wire' = From(all, n + 1)
                        /\ ops' = LogAll(ops, <<Op("SSL_read")>>)
                        /\ pc' = "parse"
                        /\ UNCHANGED out
    /\ UNCHANGED <<args, fs0, twin, cli, pure, target, rc, phase, req, fhost, fpath, buf, locals, files, status, sent, steps>>

readAndValidateResponse ==
    /\ pc = "read"
    /\ \/ /\ FetchFails(<<Op("SSL_read")>> \o fetchFree(fp), <<s_ssl>>)
          /\ UNCHANGED <<wire, srv, rbuf>>
       \/ \E r \in Served(phase) : \E n \in FirstReadSizes(r, UBSIZE - 1) :
            LET all == r.head \o r.body
                got == SubSeq(all, 1, n)
            IN  /\ srv' = [srv EXCEPT ![phase] = r]
                /\ IF ResponseStatus(got) # 200
                   THEN /\ FetchFails(<<Op("SSL_read")>> \o fetchFree(fp),
                                      <<IF ResponseStatus(got) < 0 THEN "Bad response" ELSE "Bad response status">>)
                        /\ UNCHANGED <<wire, rbuf>>
                   ELSE /\ fp' = [fp EXCEPT !.status = 200]
                        /\ rbuf' = got
                        /\ wire' = From(all, n + 1)
                        /\ ops' = LogAll(ops, <<Op("SSL_read")>>)
                        /\ pc' = "parse"
                        /\ UNCHANGED out
    /\ UNCHANGED <<args, fs0, twin, cli, pure, target, rc, phase, req, fhost, fpath, buf, locals, files, status, sent, steps>>

\* what parseResponseBody says when it returns -1
ParseError(text) ==
    IF StrStr(text, s_sep) = 0 THEN "Bad response"
    ELSE IF fetchHeader(SubSeq(text, 1, StrStr(text, s_sep) - 1), s_contentLength) = NULL
         THEN "Missing Content-Length"
    ELSE "Invalid Content-Length"

fetch_parseResponseBody ==
    /\ pc = "parse"
    /\ \E p \in parseResponseBodyResults(rbuf) :
           IF ~p.ok
           THEN FetchFails(fetchFree(fp), <<ParseError(rbuf)>>)
           ELSE /\ fp' = [fp EXCEPT !.contentLength = p.contentLength,
                                    !.bodyLength = p.bodyLength, !.body = p.body]
                /\ pc' = CASE phase = "check" -> "fetchString"
                           [] phase = "download" -> "fetchFile"
                           [] OTHER -> "reported"
                /\ ops' = IF p.body # NULL THEN LogAll(ops, <<Op("memdup")>>) ELSE ops
                /\ UNCHANGED out
    /\ rbuf' = <<>>
    /\ UNCHANGED <<args, fs0, twin, cli, pure, target, rc, phase, req, fhost, fpath, wire, srv, buf, locals, files, status, sent, steps>>

(* ---- fetchString(): the response body in memory -------------------------- *)
\* fetchString had it copied the whole fragment, however long
fetchString_wholeFragment ==
    /\ pc = "fetchString"
    /\ IF fp.contentLength = 0
       THEN /\ response' = <<>>
            /\ ops' = LogAll(ops, fetchFree(fp))
            /\ fp' = NoFetch
            /\ steps' = Append(steps, "check")
            /\ pc' = "json"
            /\ UNCHANGED buf
       ELSE /\ buf' = IF fp.body # NULL /\ fp.bodyLength > 0 THEN SubSeq(fp.body, 1, fp.bodyLength) ELSE <<>>
            /\ fp' = IF fp.body # NULL /\ fp.bodyLength > 0 THEN [fp EXCEPT !.body = NULL] ELSE fp
            /\ ops' = IF fp.body # NULL /\ fp.bodyLength > 0 THEN LogAll(ops, <<Op("free(body)")>>) ELSE ops
            /\ pc' = "fetchString_read"
            /\ UNCHANGED <<response, steps>>
    /\ UNCHANGED <<args, fs0, twin, cli, pure, target, out, rc, phase, req, fhost, fpath, wire, srv, rbuf,
                   downloadUrl, checksum, update, updateVersion, files, status, sent>>

fetchString ==
    /\ pc = "fetchString"
    /\ IF fp.contentLength = 0
       THEN /\ response' = <<>>
            /\ ops' = LogAll(ops, fetchFree(fp))
            /\ fp' = NoFetch
            /\ steps' = Append(steps, "check")
            /\ pc' = "json"
            /\ UNCHANGED buf
       ELSE /\ buf' = IF fp.body # NULL /\ fp.bodyLength > 0
                      THEN SubSeq(fp.body, 1, IF fp.bodyLength < fp.contentLength
                                              THEN fp.bodyLength ELSE fp.contentLength)
                      ELSE <<>>
            /\ fp' = IF fp.body # NULL /\ fp.bodyLength > 0 THEN [fp EXCEPT !.body = NULL] ELSE fp
            /\ ops' = IF fp.body # NULL /\ fp.bodyLength > 0 THEN LogAll(ops, <<Op("free(body)")>>) ELSE ops
            /\ pc' = "fetchString_read"
            /\ UNCHANGED <<response, steps>>
    /\ UNCHANGED <<args, fs0, twin, cli, pure, target, out, rc, phase, req, fhost, fpath, wire, srv, rbuf,
                   downloadUrl, checksum, update, updateVersion, files, status, sent>>

\* fetchString_read had a failed read returned the bytes read so far
fetchString_read_partial ==
    /\ pc = "fetchString_read"
    /\ IF Len(buf) < fp.contentLength
       THEN \/ /\ ops' = LogAll(LogLoop(ops, <<Op("SSL_read")>>), fetchFree(fp))
               /\ response' = buf
               /\ fp' = NoFetch
               /\ steps' = Append(steps, "check")
               /\ pc' = "json"
               /\ out' = Error(out, <<s_ssl>>)
               /\ UNCHANGED <<buf, wire>>
            \/ \E n \in ReadSizes(Len(wire), fp.contentLength - Len(buf)) :
                 /\ ops' = LogLoop(ops, <<Op("SSL_read")>>)
                 /\ buf' = buf \o SubSeq(wire, 1, n)
                 /\ wire' = From(wire, n + 1)
                 /\ UNCHANGED <<response, fp, pc, steps, out>>
       ELSE /\ response' = buf
            /\ ops' = LogAll(ops, fetchFree(fp))
            /\ fp' = NoFetch
            /\ steps' = Append(steps, "check")
            /\ pc' = "json"
            /\ UNCHANGED <<buf, wire, out>>
    /\ UNCHANGED <<args, fs0, twin, cli, pure, target, rc, phase, req, fhost, fpath, srv, rbuf,
                   downloadUrl, checksum, update, updateVersion, files, status, sent>>

fetchString_read ==
    /\ pc = "fetchString_read"
    /\ IF Len(buf) < fp.contentLength
       THEN \/ /\ ops' = LogLoop(ops, <<Op("SSL_read")>>)
               /\ buf' = <<>>
               /\ pc' = "cleanup"
               /\ out' = Error(out, <<s_ssl, "Connection closed or error while reading response body">>)
               /\ UNCHANGED <<response, fp, wire, steps>>
            \/ \E n \in ReadSizes(Len(wire), fp.contentLength - Len(buf)) :
                 /\ ops' = LogLoop(ops, <<Op("SSL_read")>>)
                 /\ buf' = buf \o SubSeq(wire, 1, n)
                 /\ wire' = From(wire, n + 1)
                 /\ UNCHANGED <<response, fp, pc, steps, out>>
       ELSE /\ response' = buf
            /\ ops' = LogAll(ops, fetchFree(fp))
            /\ fp' = NoFetch
            /\ steps' = Append(steps, "check")
            /\ pc' = "json"
            /\ UNCHANGED <<buf, wire, out>>
    /\ UNCHANGED <<args, fs0, twin, cli, pure, target, rc, phase, req, fhost, fpath, srv, rbuf,
                   downloadUrl, checksum, update, updateVersion, files, status, sent>>

(* ---- update(): the update descriptor ------------------------------------- *)
\* Update_ParseResponse had it not required the version field
Update_ParseResponse_versionOptional ==
    /\ pc = "json"
    /\ IF json(response, k_url) = NULL
       THEN /\ rc' = 0
            /\ pc' = "cleanup"
            /\ UNCHANGED <<downloadUrl, checksum, update, updateVersion, out>>
       ELSE /\ downloadUrl' = json(response, k_url)
            /\ checksum' = json(response, k_checksum)
            /\ update' = json(response, k_update)
            /\ updateVersion' = json(response, k_version)
            /\ pc' = IF NULL \in {checksum', update'} THEN "cleanup" ELSE "checkUrl"
            /\ out' = IF NULL \in {checksum', update'} THEN Error(out, <<"Incomplete update response">>) ELSE out
            /\ UNCHANGED rc
    /\ response' = NULL
    /\ UNCHANGED <<args, fs0, twin, cli, pure, target, phase, exchange, files, status, sent, steps, ops>>

\* Update_ParseResponse had a response without url been an error
Update_ParseResponse_noUrlFails ==
    /\ pc = "json"
    /\ IF json(response, k_url) = NULL
       THEN /\ rc' = rc
            /\ pc' = "cleanup"
            /\ UNCHANGED <<downloadUrl, checksum, update, updateVersion, out>>
       ELSE /\ downloadUrl' = json(response, k_url)
            /\ checksum' = json(response, k_checksum)
            /\ update' = json(response, k_update)
            /\ updateVersion' = json(response, k_version)
            /\ pc' = IF NULL \in {checksum', update', updateVersion'} THEN "cleanup" ELSE "checkUrl"
            /\ out' = IF NULL \in {checksum', update', updateVersion'} THEN Error(out, <<"Incomplete update response">>) ELSE out
            /\ UNCHANGED rc
    /\ response' = NULL
    /\ UNCHANGED <<args, fs0, twin, cli, pure, target, phase, exchange, files, status, sent, steps, ops>>

Update_ParseResponse ==
    /\ pc = "json"
    /\ IF json(response, k_url) = NULL
       THEN /\ rc' = 0
            /\ pc' = "cleanup"
            /\ UNCHANGED <<downloadUrl, checksum, update, updateVersion, out>>
       ELSE /\ downloadUrl' = json(response, k_url)
            /\ checksum' = json(response, k_checksum)
            /\ update' = json(response, k_update)
            /\ updateVersion' = json(response, k_version)
            /\ pc' = IF NULL \in {checksum', update', updateVersion'} THEN "cleanup" ELSE "checkUrl"
            /\ out' = IF NULL \in {checksum', update', updateVersion'} THEN Error(out, <<"Incomplete update response">>) ELSE out
            /\ UNCHANGED rc
    /\ response' = NULL
    /\ UNCHANGED <<args, fs0, twin, cli, pure, target, phase, exchange, files, status, sent, steps, ops>>

\* Update_CheckUrl had it searched the url for https:// as parseUrl does
Update_CheckUrl_anywhere ==
    /\ pc = "checkUrl"
    /\ IF Len(s_accept) >= HEADERS_SIZE \/ StrStr(downloadUrl, s_https) = 0
       THEN /\ pc' = "cleanup"
            /\ out' = Error(out, <<IF Len(s_accept) >= HEADERS_SIZE THEN "Headers buffer too small"
                                    ELSE "Insecure download URL (HTTPS required)">>)
            /\ UNCHANGED <<req, phase>>
       ELSE /\ req' = [method |-> s_GET, url |-> downloadUrl, headers |-> s_accept, body |-> NULL]
            /\ phase' = "download"
            /\ pc' = "fetch"
            /\ UNCHANGED out
    /\ UNCHANGED <<args, fs0, twin, cli, pure, target, rc, fhost, fpath, fp, wire, srv, rbuf, buf, locals, files, status, sent, steps, ops>>

\* Update_CheckUrl had the refusal been part of the statement that reports it
Update_CheckUrl_quietAccepts ==
    /\ pc = "checkUrl"
    /\ IF Len(s_accept) >= HEADERS_SIZE \/ (~StartsWith(downloadUrl, s_https) /\ args.quiet = 0)
       THEN /\ pc' = "cleanup"
            /\ out' = Error(out, <<IF Len(s_accept) >= HEADERS_SIZE THEN "Headers buffer too small"
                                    ELSE "Insecure download URL (HTTPS required)">>)
            /\ UNCHANGED <<req, phase>>
       ELSE /\ req' = [method |-> s_GET, url |-> downloadUrl, headers |-> s_accept, body |-> NULL]
            /\ phase' = "download"
            /\ pc' = "fetch"
            /\ UNCHANGED out
    /\ UNCHANGED <<args, fs0, twin, cli, pure, target, rc, fhost, fpath, fp, wire, srv, rbuf, buf, locals, files, status, sent, steps, ops>>

Update_CheckUrl ==
    /\ pc = "checkUrl"
    /\ IF Len(s_accept) >= HEADERS_SIZE \/ ~StartsWith(downloadUrl, s_https)
       THEN /\ pc' = "cleanup"
            /\ out' = Error(out, <<IF Len(s_accept) >= HEADERS_SIZE THEN "Headers buffer too small"
                                    ELSE "Insecure download URL (HTTPS required)">>)
            /\ UNCHANGED <<req, phase>>
       ELSE /\ req' = [method |-> s_GET, url |-> downloadUrl, headers |-> s_accept, body |-> NULL]
            /\ phase' = "download"
            /\ pc' = "fetch"
            /\ UNCHANGED out
    /\ UNCHANGED <<args, fs0, twin, cli, pure, target, rc, fhost, fpath, fp, wire, srv, rbuf, buf, locals, files, status, sent, steps, ops>>

(* ---- fetchFile(): the response body in the destination file --------------- *)
\* what fetchFile() says before it opens the file
Announced ==
    Trace(IF StartsWith(args.path, s_tmp) THEN Error(out, <<"WARNING: Saving update to /tmp is insecure">>) ELSE out,
          <<"Downloading update to">>)
s_cannotOpen == "Cannot open image temp file"

\* what unlink(path) and the exclusive open may come to: the file created,
\* the open failing after the unlink, or the entry staying where it is
\* because it could not be unlinked, which makes the exclusive open fail
OpenResults == {"created", "open fails", "unlink fails"}

\* fetchFile had it opened the path with O_WRONLY|O_CREAT|O_TRUNC and no
\* unlink before: open() resolves a symbolic link and creates or truncates
\* the file it points to
fetchFile_follow ==
    /\ pc = "fetchFile"
    /\ \E r \in {o \in OpenResults \ {"unlink fails"} : o = "created" => args.path # <<>>} :
         IF r = "created"
         THEN /\ fs' = IF fs.kind = "none" THEN RegFile(<<>>, 384)
                       ELSE IF fs.kind = "reg" THEN [fs EXCEPT !.data = <<>>] ELSE fs
              /\ target' = IF fs.kind # "symlink" THEN target
                           ELSE IF target.kind = "none" THEN RegFile(<<>>, 384)
                           ELSE [target EXCEPT !.data = <<>>]
              /\ fdOpen' = TRUE
              /\ ops' = LogAll(ops, <<Op("open"), Op("fstat")>>)
              /\ pc' = "fetchFile_write"
              /\ out' = Announced
         ELSE /\ ops' = LogAll(ops, <<Op("open")>>)
              /\ pc' = "cleanup"
              /\ out' = Error(Announced, <<s_cannotOpen>>)
              /\ UNCHANGED <<fs, target, fdOpen>>
    /\ UNCHANGED <<args, fs0, twin, cli, pure, rc, phase, exchange, locals, status, sent, steps>>

\* fetchFile had it opened the path as it found it, truncating what is there
fetchFile_truncate ==
    /\ pc = "fetchFile"
    /\ \E r \in {o \in OpenResults \ {"unlink fails"} : o = "created" => args.path # <<>>} :
         IF r = "created"
         THEN /\ fs' = IF fs.kind = "none" THEN RegFile(<<>>, 384) ELSE [fs EXCEPT !.data = <<>>]
              /\ fdOpen' = TRUE
              /\ ops' = LogAll(ops, <<Op("open"), Op("fstat")>>)
              /\ pc' = "fetchFile_write"
              /\ out' = Announced
         ELSE /\ ops' = LogAll(ops, <<Op("open")>>)
              /\ pc' = "cleanup"
              /\ out' = Error(Announced, <<s_cannotOpen>>)
              /\ UNCHANGED <<fs, fdOpen>>
    /\ UNCHANGED <<args, fs0, twin, cli, pure, target, rc, phase, exchange, locals, status, sent, steps>>

\* unlink() removes the link itself and open() with O_EXCL|O_NOFOLLOW does
\* not resolve one, so the file a link points to stays as it is
fetchFile ==
    /\ pc = "fetchFile"
    /\ \E r \in {o \in OpenResults : (o = "created" => args.path # <<>>) /\
                                      (o = "unlink fails" => (fs.kind # "none" /\ args.path # <<>>))} :
         CASE r = "created" ->
                /\ fs' = RegFile(<<>>, 384)
                /\ fdOpen' = TRUE
                /\ ops' = LogAll(ops, <<Op("unlink"), Op("open"), Op("fstat")>>)
                /\ pc' = "fetchFile_write"
                /\ out' = Announced
           [] r = "open fails" ->
                /\ fs' = IF args.path = <<>> THEN fs ELSE NoFile
                /\ ops' = LogAll(ops, <<Op("unlink"), Op("open")>>)
                /\ pc' = "cleanup"
                /\ out' = Error(Announced, <<s_cannotOpen>>)
                /\ UNCHANGED fdOpen
           [] OTHER ->
                /\ ops' = LogAll(ops, <<Op("unlink"), Op("open")>>)
                /\ pc' = "cleanup"
                /\ out' = Error(Announced, <<s_cannotOpen>>)
                /\ UNCHANGED <<fs, fdOpen>>
    /\ UNCHANGED <<args, fs0, twin, cli, pure, target, rc, phase, exchange, locals, status, sent, steps>>

fetchFile_write ==
    /\ pc = "fetchFile_write"
    /\ IF fp.body # NULL
       THEN LET writeLen == IF fp.bodyLength < fp.contentLength THEN fp.bodyLength ELSE fp.contentLength
            IN  \/ /\ ops' = LogAll(ops, <<Op("write"), Op("close")>>)
                   /\ fdOpen' = FALSE
                   /\ pc' = "cleanup"
                   /\ out' = Error(out, <<"Cannot write to file">>)
                   /\ UNCHANGED <<fs, fp>>
                \/ \E k \in {writeLen, IF writeLen > 0 THEN writeLen - 1 ELSE 0} :
                     /\ fs' = [fs EXCEPT !.data = fs.data \o SubSeq(fp.body, 1, k)]
                     /\ fp' = [fp EXCEPT !.body = NULL]
                     /\ ops' = LogAll(LogLoop(ops, <<Op("write")>>), <<Op("free(body)")>>)
                     /\ pc' = "fetchFile_read"
                     /\ UNCHANGED <<fdOpen, out>>
       ELSE /\ pc' = "fetchFile_read"
            /\ UNCHANGED <<fs, fdOpen, fp, ops, out>>
    /\ UNCHANGED <<args, fs0, twin, cli, pure, target, rc, phase, req, fhost, fpath, wire, srv, rbuf, buf, locals, status, sent, steps>>

\* fetchFile_read had update() left the download session to the cleanup
\* after the block
fetchFile_read_keepOpen ==
    /\ pc = "fetchFile_read"
    /\ \/ /\ ops' = LogAll(LogLoop(ops, <<Op("SSL_read")>>), <<Op("close")>>)
          /\ fdOpen' = FALSE
          /\ steps' = Append(steps, "download")
          /\ pc' = "verify"
          /\ out' = Error(out, <<s_ssl>>)
          /\ UNCHANGED <<fs, wire, fp>>
       \/ \E n \in ReadSizes(Len(wire), UBSIZE) :
            /\ wire' = From(wire, n + 1)
            /\ \/ /\ fs' = [fs EXCEPT !.data = fs.data \o SubSeq(wire, 1, n)]
                  /\ ops' = LogLoop(ops, <<Op("SSL_read"), Op("write")>>)
                  /\ UNCHANGED <<fdOpen, pc, out>>
               \/ /\ fs' = [fs EXCEPT !.data = fs.data \o SubSeq(wire, 1, n - 1)]
                  /\ ops' = LogAll(LogLoop(ops, <<Op("SSL_read"), Op("write")>>), <<Op("close")>>)
                  /\ fdOpen' = FALSE
                  /\ pc' = "cleanup"
                  /\ out' = Error(out, <<"Cannot save response">>)
            /\ UNCHANGED <<fp, steps>>
    /\ UNCHANGED <<args, fs0, twin, cli, pure, target, rc, phase, req, fhost, fpath, srv, rbuf, buf, locals, status, sent>>

fetchFile_read ==
    /\ pc = "fetchFile_read"
    /\ \/ /\ ops' = LogAll(LogLoop(ops, <<Op("SSL_read")>>), <<Op("close")>> \o fetchFree(fp))
          /\ fdOpen' = FALSE
          /\ fp' = NoFetch
          /\ steps' = Append(steps, "download")
          /\ pc' = "verify"
          /\ out' = Error(out, <<s_ssl>>)
          /\ UNCHANGED <<fs, wire>>
       \/ \E n \in ReadSizes(Len(wire), UBSIZE) :
            /\ wire' = From(wire, n + 1)
            /\ \/ /\ fs' = [fs EXCEPT !.data = fs.data \o SubSeq(wire, 1, n)]
                  /\ ops' = LogLoop(ops, <<Op("SSL_read"), Op("write")>>)
                  /\ UNCHANGED <<fdOpen, pc, out>>
               \/ /\ fs' = [fs EXCEPT !.data = fs.data \o SubSeq(wire, 1, n - 1)]
                  /\ ops' = LogAll(LogLoop(ops, <<Op("SSL_read"), Op("write")>>), <<Op("close")>>)
                  /\ fdOpen' = FALSE
                  /\ pc' = "cleanup"
                  /\ out' = Error(out, <<"Cannot save response">>)
            /\ UNCHANGED <<fp, steps>>
    /\ UNCHANGED <<args, fs0, twin, cli, pure, target, rc, phase, req, fhost, fpath, srv, rbuf, buf, locals, status, sent>>

(* ---- update(): verify, apply, report -------------------------------------- *)
\* Update_Verify had a mismatch only been worth a warning
Update_Verify_mismatchOk ==
    /\ pc = "verify"
    /\ \/ /\ ops' = LogAll(ops, <<Op("fopen")>>)
          /\ pc' = "cleanup"
          /\ out' = Error(Trace(out, <<"Verify update checksum in">>), <<"Cannot open">>)
          /\ UNCHANGED <<steps, rc>>
       \/ /\ ops' = LogAll(ops, <<Op("fopen"), Op("EVP_Digest")>>)
          /\ out' = IF getFileSum(fs.data) # checksum THEN Error(Trace(out, <<"Verify update checksum in">>), <<"Checksum does not match">>) ELSE Trace(out, <<"Verify update checksum in">>)
          /\ IF getFileSum(fs.data) # checksum
             THEN pc' = "cleanup" /\ rc' = 0 /\ UNCHANGED steps
             ELSE pc' = "apply" /\ steps' = Append(steps, "verify") /\ UNCHANGED rc
    /\ UNCHANGED <<args, fs0, twin, cli, pure, target, phase, exchange, locals, files, status, sent>>

\* Update_Verify had it not compared the sum with the checksum
Update_Verify_noCompare ==
    /\ pc = "verify"
    /\ \/ /\ ops' = LogAll(ops, <<Op("fopen")>>)
          /\ pc' = "cleanup"
          /\ out' = Error(Trace(out, <<"Verify update checksum in">>), <<"Cannot open">>)
          /\ UNCHANGED steps
       \/ /\ ops' = LogAll(ops, <<Op("fopen"), Op("EVP_Digest")>>)
          /\ out' = IF getFileSum(fs.data) = <<>> THEN Error(Trace(out, <<"Verify update checksum in">>), <<"Checksum does not match">>) ELSE Trace(out, <<"Verify update checksum in">>)
          /\ IF getFileSum(fs.data) = <<>>
             THEN pc' = "cleanup" /\ UNCHANGED steps
             ELSE pc' = "apply" /\ steps' = Append(steps, "verify")
    /\ UNCHANGED <<args, fs0, twin, cli, pure, target, rc, phase, exchange, locals, files, status, sent>>

\* Update_Verify had it removed the file whose checksum does not match
Update_Verify_unlinks ==
    /\ pc = "verify"
    /\ \/ /\ ops' = LogAll(ops, <<Op("fopen")>>)
          /\ pc' = "cleanup"
          /\ out' = Error(Trace(out, <<"Verify update checksum in">>), <<"Cannot open">>)
          /\ UNCHANGED <<steps, files>>
       \/ /\ out' = IF getFileSum(fs.data) # checksum THEN Error(Trace(out, <<"Verify update checksum in">>), <<"Checksum does not match">>) ELSE Trace(out, <<"Verify update checksum in">>)
          /\ IF getFileSum(fs.data) # checksum
             THEN /\ pc' = "cleanup"
                  /\ ops' = LogAll(ops, <<Op("fopen"), Op("EVP_Digest"), Op("unlink")>>)
                  /\ fs' = NoFile
                  /\ UNCHANGED <<steps, fdOpen>>
             ELSE /\ pc' = "apply"
                  /\ ops' = LogAll(ops, <<Op("fopen"), Op("EVP_Digest")>>)
                  /\ steps' = Append(steps, "verify")
                  /\ UNCHANGED files
    /\ UNCHANGED <<args, fs0, twin, cli, pure, target, rc, phase, exchange, locals, status, sent>>

\* Update_Verify had it compared the checksums without regard to case or
\* to white space around them
Update_Verify_lenient ==
    /\ pc = "verify"
    /\ \/ /\ ops' = LogAll(ops, <<Op("fopen")>>)
          /\ pc' = "cleanup"
          /\ out' = Error(Trace(out, <<"Verify update checksum in">>), <<"Cannot open">>)
          /\ UNCHANGED steps
       \/ /\ ops' = LogAll(ops, <<Op("fopen"), Op("EVP_Digest")>>)
          /\ out' = Trace(out, <<"Verify update checksum in">>)
          /\ IF \A c \in {checksum, Tail(checksum), SubSeq(checksum, 1, Len(checksum) - 1)} :
                   Upper(getFileSum(fs.data)) # Upper(c)
             THEN pc' = "cleanup" /\ UNCHANGED steps
             ELSE pc' = "apply" /\ steps' = Append(steps, "verify")
    /\ UNCHANGED <<args, fs0, twin, cli, pure, target, rc, phase, exchange, locals, files, status, sent>>

Update_Verify ==
    /\ pc = "verify"
    /\ \/ /\ ops' = LogAll(ops, <<Op("fopen")>>)
          /\ pc' = "cleanup"
          /\ out' = Error(Trace(out, <<"Verify update checksum in">>), <<"Cannot open">>)
          /\ UNCHANGED steps
       \/ /\ ops' = LogAll(ops, <<Op("fopen"), Op("EVP_Digest")>>)
          /\ out' = IF getFileSum(fs.data) # checksum THEN Error(Trace(out, <<"Verify update checksum in">>), <<"Checksum does not match">>) ELSE Trace(out, <<"Verify update checksum in">>)
          /\ IF getFileSum(fs.data) # checksum
             THEN pc' = "cleanup" /\ UNCHANGED steps
             ELSE pc' = "apply" /\ steps' = Append(steps, "verify")
    /\ UNCHANGED <<args, fs0, twin, cli, pure, target, rc, phase, exchange, locals, files, status, sent>>

\* what run() says for the status it returns: 127 is the child that could
\* not execute the script, -1 a fork that failed
RunSays(st) ==
    IF st = 127 THEN <<"Cannot run command">>
    ELSE IF st = -1 THEN <<"Cannot fork to run command">>
    ELSE <<>>

\* Update_Apply had a failing script ended the run
Update_Apply_failureFatal ==
    /\ pc = "apply"
    /\ IF args.script # NULL
       THEN /\ \E s \in RunResults : status' = s
            /\ ops' = LogAll(ops, <<Op("run")>>)
            /\ out' = Trace(Error(Trace(out, <<"Applying update">>), RunSays(status')),
                            <<IF status' = 0 THEN "Update Successful" ELSE "Update Failed">>)
            /\ steps' = Append(steps, "apply")
            /\ pc' = IF status' # 0 THEN "cleanup" ELSE "postReport"
            /\ UNCHANGED rc
       ELSE /\ rc' = 0
            /\ pc' = "cleanup"
            /\ UNCHANGED <<status, steps, ops, out>>
    /\ UNCHANGED <<args, fs0, twin, cli, pure, target, phase, exchange, locals, files, sent>>

\* Update_Apply had the outcome of the report not counted
Update_Apply_reportBestEffort ==
    /\ pc = "apply"
    /\ IF args.script # NULL
       THEN /\ \E s \in RunResults : status' = s
            /\ ops' = LogAll(ops, <<Op("run")>>)
            /\ out' = Trace(Error(Trace(out, <<"Applying update">>), RunSays(status')),
                            <<IF status' = 0 THEN "Update Successful" ELSE "Update Failed">>)
            /\ steps' = Append(steps, "apply")
            /\ pc' = "postReport"
            /\ rc' = 0
       ELSE /\ rc' = 0
            /\ pc' = "cleanup"
            /\ UNCHANGED <<status, steps, ops, out>>
    /\ UNCHANGED <<args, fs0, twin, cli, pure, target, phase, exchange, locals, files, sent>>

Update_Apply ==
    /\ pc = "apply"
    /\ IF args.script # NULL
       THEN /\ \E s \in RunResults : status' = s
            /\ ops' = LogAll(ops, <<Op("run")>>)
            /\ out' = Trace(Error(Trace(out, <<"Applying update">>), RunSays(status')),
                            <<IF status' = 0 THEN "Update Successful" ELSE "Update Failed">>)
            /\ steps' = Append(steps, "apply")
            /\ pc' = "postReport"
            /\ UNCHANGED rc
       ELSE /\ rc' = 0
            /\ pc' = "cleanup"
            /\ UNCHANGED <<status, steps, ops, out>>
    /\ UNCHANGED <<args, fs0, twin, cli, pure, target, phase, exchange, locals, files, sent>>

postReport ==
    /\ pc = "postReport"
    /\ LET body == ReportBody(status, args.device, update)
           url == ReportUrl(args.host)
           headers == AuthHeaders(args.token)
       IN  IF Len(body) >= UBSIZE \/ Len(url) >= REPORT_URL_SIZE \/ Len(headers) >= HEADERS_SIZE
           THEN /\ pc' = "cleanup"
                /\ out' = Error(out, <<IF Len(body) >= UBSIZE THEN "Report body is too long"
                                        ELSE IF Len(url) >= REPORT_URL_SIZE THEN "Report URL is too long"
                                        ELSE "Report headers buffer too small">>)
                /\ UNCHANGED <<req, phase>>
           ELSE /\ req' = [method |-> s_POST, url |-> url, headers |-> headers, body |-> body]
                /\ phase' = "report"
                /\ pc' = "fetch"
                /\ UNCHANGED out
    /\ UNCHANGED <<args, fs0, twin, cli, pure, target, rc, fhost, fpath, fp, wire, srv, rbuf, buf, locals, files, status, sent, steps, ops>>

postReport_done ==
    /\ pc = "reported"
    /\ ops' = LogAll(ops, fetchFree(fp))
    /\ fp' = NoFetch
    /\ rc' = 0
    /\ steps' = Append(steps, "report")
    /\ pc' = "cleanup"
    /\ UNCHANGED <<args, fs0, twin, cli, pure, target, out, phase, req, fhost, fpath, wire, srv, rbuf, buf, locals, files, status, sent>>

\* Update_Cleanup had it not released the session a failed fetchString or
\* fetchFile left behind
Update_Cleanup_noFree ==
    /\ pc = "cleanup"
    /\ ops' = ops
    /\ fp' = NoFetch
    /\ response' = NULL /\ downloadUrl' = NULL /\ checksum' = NULL
    /\ update' = NULL /\ updateVersion' = NULL
    /\ pc' = "done"
    /\ UNCHANGED <<args, fs0, twin, cli, pure, target, out, rc, phase, req, fhost, fpath, wire, srv, rbuf, buf, files, status, sent, steps>>

Update_Cleanup ==
    /\ pc = "cleanup"
    /\ ops' = IF fp.live THEN LogAll(ops, fetchFree(fp)) ELSE ops
    /\ fp' = NoFetch
    /\ response' = NULL /\ downloadUrl' = NULL /\ checksum' = NULL
    /\ update' = NULL /\ updateVersion' = NULL
    /\ pc' = "done"
    /\ UNCHANGED <<args, fs0, twin, cli, pure, target, out, rc, phase, req, fhost, fpath, wire, srv, rbuf, buf, files, status, sent, steps>>

Next ==
    \/ Update_Validate
    \/ Update_FormatCheck
    \/ fetch_parseUrl
    \/ connectToHost
    \/ fetchAlloc
    \/ SSL_connect
    \/ sendHttpRequest
    \/ readAndValidateResponse
    \/ fetch_parseResponseBody
    \/ fetchString
    \/ fetchString_read
    \/ Update_ParseResponse
    \/ Update_CheckUrl
    \/ fetchFile
    \/ fetchFile_write
    \/ fetchFile_read
    \/ Update_Verify
    \/ Update_Apply
    \/ postReport
    \/ postReport_done
    \/ Update_Cleanup

Spec == Init /\ [][Next]_vars

(* ---- runs on arguments as long as the buffers of update() ---------------- *)
\* n bytes of text
Pad(n) == [i \in 1..n |-> "a"]
\* the plain call with one argument made so long that the check url, the
\* check body or the headers format to one byte less than the buffer that
\* takes them, or to exactly its size; the same for the host and the url
\* buffer of postReport()
LongArgs ==
    {[PlainArgs EXCEPT !.host = s_https \o Pad(n - Len(CheckUrl(s_https)))] : n \in {UBSIZE - 1, UBSIZE}}
    \cup {[PlainArgs EXCEPT !.properties = Pad(n - Len(CheckBody(<<"d">>, <<"p">>, <<"1">>, <<>>)))] :
              n \in {UBSIZE - 1, UBSIZE}}
    \cup {[PlainArgs EXCEPT !.device = Pad(n - Len(CheckBody(<<>>, <<"p">>, <<"1">>, NULL)))] :
              n \in {UBSIZE - 1, UBSIZE}}
    \cup {[PlainArgs EXCEPT !.token = Pad(n - Len(AuthHeaders(<<>>)))] : n \in {HEADERS_SIZE - 1, HEADERS_SIZE}}
    \cup {[PlainArgs EXCEPT !.host = s_https \o Pad(n - Len(ReportUrl(s_https)))] :
              n \in {REPORT_URL_SIZE - 1, REPORT_URL_SIZE}}

\* the state in which update() is entered with the arguments a and the entry
\* e at the destination path
Start(a, e) ==
    /\ args = a
    /\ pc = "start"
    /\ rc = -1
    /\ phase = "none"
    /\ req = NoRequest
    /\ fhost = NULL /\ fpath = NULL
    /\ fp = NoFetch
    /\ wire = <<>>
    /\ srv = [check |-> NoResponse, download |-> NoResponse, report |-> NoResponse]
    /\ rbuf = <<>>
    /\ buf = <<>>
    /\ response = NULL /\ downloadUrl = NULL /\ checksum = NULL
    /\ update = NULL /\ updateVersion = NULL
    /\ fs0 = e
    /\ fs = e
    /\ target = TargetOf(e)
    /\ fdOpen = FALSE
    /\ status = 0
    /\ sent = <<>>
    /\ steps = <<>>
    /\ ops = <<>>
    /\ out = <<>>

LongInit == \E a \in LongArgs : Start(a, NoFile) /\ twin = NoTwin /\ cli = NoCli /\ pure = NoCall

LongSpec == LongInit /\ [][Next]_vars

(* ---- runs under every setting of the verbose and quiet flags -------------- *)
Flags == {0, 1} \X {0, 1}
WithFlags(a, f) == [a EXCEPT !.verbose = f[1], !.quiet = f[2]]
\* the plain call, to a path in /tmp as well, under each setting of the flags
FlagArgs ==
    {WithFlags(a, f) : a \in {PlainArgs, [PlainArgs EXCEPT !.path = s_tmp \o <<"f">>]}, f \in Flags}
FlagInit == \E a \in FlagArgs : Start(a, NoFile) /\ twin = NoTwin /\ cli = NoCli /\ pure = NoCall
FlagSpec == FlagInit /\ [][Next]_vars

(* ---- two runs that differ in the flags only, step by step ----------------- *)
\* One run leads by a step of update(); the state is then taken back to where
\* the step began, under the flags and with the output of the other run,
\* which follows with the same step of update() if it has one: the same call
\* outcomes, the same responses, the same file system. Then the other run
\* leads.
Snapshot ==
    [args |-> args, pc |-> pc, rc |-> rc, phase |-> phase, req |-> req, fhost |-> fhost, fpath |-> fpath,
     fp |-> fp, wire |-> wire, srv |-> srv, rbuf |-> rbuf, buf |-> buf, response |-> response,
     downloadUrl |-> downloadUrl, checksum |-> checksum, update |-> update, updateVersion |-> updateVersion,
     fs |-> fs, fs0 |-> fs0, target |-> target, fdOpen |-> fdOpen, status |-> status, sent |-> sent,
     steps |-> steps, ops |-> ops, out |-> out]
\* a state with the flags and the text written left out
Apart(x) == [x EXCEPT !.args = WithFlags(x.args, <<0, 0>>), !.out = <<>>]
FlagsOf(a) == <<a.verbose, a.quiet>>

Twin_Lead ==
    /\ twin.mode = "idle"
    /\ pc # "done"
    /\ twin' = [twin EXCEPT !.mode = "lead", !.pre = Snapshot]
    /\ UNCHANGED <<args, pc, rc, phase, exchange, locals, files, fs0, target, status, sent, steps, ops, out, cli, pure>>

\* the step of update() the leading run takes
Twin_LeadStep ==
    /\ twin.mode = "lead"
    /\ twin.pre = Snapshot
    /\ Next

Twin_Rewind ==
    /\ twin.mode = "lead"
    /\ twin.pre # Snapshot
    /\ LET p == twin.pre
       IN  /\ args' = WithFlags(p.args, twin.flags)
           /\ out' = twin.other
           /\ pc' = p.pc /\ rc' = p.rc /\ phase' = p.phase /\ req' = p.req
           /\ fhost' = p.fhost /\ fpath' = p.fpath /\ fp' = p.fp /\ wire' = p.wire /\ srv' = p.srv
           /\ rbuf' = p.rbuf /\ buf' = p.buf /\ response' = p.response
           /\ downloadUrl' = p.downloadUrl /\ checksum' = p.checksum /\ update' = p.update
           /\ updateVersion' = p.updateVersion
           /\ fs' = p.fs /\ fs0' = p.fs0 /\ target' = p.target /\ fdOpen' = p.fdOpen
           /\ status' = p.status /\ sent' = p.sent /\ steps' = p.steps /\ ops' = p.ops
           /\ UNCHANGED <<cli, pure>>
           /\ twin' = [mode |-> "follow", flags |-> FlagsOf(args), other |-> out,
                       pre |-> [p EXCEPT !.args = WithFlags(p.args, twin.flags), !.out = twin.other],
                       post |-> Apart(Snapshot)]

\* the same step of update(), taken by the run that follows
Twin_FollowStep ==
    /\ twin.mode = "follow"
    /\ twin.pre = Snapshot
    /\ Next
    /\ Apart(Snapshot)' = twin.post

Twin_Join ==
    /\ twin.mode = "follow"
    /\ twin.pre # Snapshot
    /\ twin' = [twin EXCEPT !.mode = "idle", !.pre = NoSnapshot, !.post = NoSnapshot]
    /\ UNCHANGED <<args, pc, rc, phase, exchange, locals, files, fs0, target, status, sent, steps, ops, out, cli, pure>>

TwinNext == Twin_Lead \/ Twin_LeadStep \/ Twin_Rewind \/ Twin_FollowStep \/ Twin_Join

\* the plain call with both flags clear, compared with the same call under
\* each other setting of the flags; the two runs lead in turn
TwinInit ==
    \E g \in Flags \ {<<0, 0>>} :
        /\ Start(PlainArgs, NoFile)
        /\ twin = [NoTwin EXCEPT !.mode = "idle", !.flags = g]
        /\ cli = NoCli
        /\ pure = NoCall
TwinSpec == TwinInit /\ [][TwinNext]_vars

(* ---- main.c: the command line program ---------------------------------------- *)
IMAGE_PATH == <<"u", "p", "d", "a", "t", "e", ".", "b", "i", "n">>
BUFFER_SIZE == 4096
\* the options of parseArgs, by the global each one sets or the effect it has
opt ==
    [cmd |-> <<"-", "-", "c", "m", "d">>, device |-> <<"-", "-", "d", "e", "v", "i", "c", "e">>, file |-> <<"-", "-", "f", "i", "l", "e">>, host |-> <<"-", "-", "h", "o", "s", "t">>,
     product |-> <<"-", "-", "p", "r", "o", "d", "u", "c", "t">>, token |-> <<"-", "-", "t", "o", "k", "e", "n">>, version |-> <<"-", "-", "v", "e", "r", "s", "i", "o", "n">>]
HelpOptions == {<<"-", "-", "h", "e", "l", "p">>, <<"-", "h">>, <<"-", "?">>}
QuietOptions == {<<"-", "-", "q", "u", "i", "e", "t">>, <<"-", "q">>}
VerboseOptions == {<<"-", "-", "v", "e", "r", "b", "o", "s", "e">>, <<"-", "v">>}

\* strtok_r(dup, "=", &value): the key is NULL when nothing but '=' is left;
\* leading '=' are skipped, the key ends before the next '=' and the value
\* is what follows it
strtok_r(s) ==
    LET skipped == {i \in 1..Len(s) : \A j \in 1..i : s[j] = "="}
        rest == From(s, Cardinality(skipped) + 1)
        e == StrChr(rest, "=")
    IN  IF rest = <<>> THEN [key |-> NULL, value |-> <<>>]
        ELSE IF e = 0 THEN [key |-> rest, value |-> <<>>]
        ELSE [key |-> SubSeq(rest, 1, e - 1), value |-> From(rest, e + 1)]

\* usage(): the text on standard error unless quiet, then exit(isError ? 2 : 0)
usage(said, isError) ==
    /\ cli' = [cli EXCEPT !.pc = "exited", !.exit = IF isError THEN 2 ELSE 0]
    /\ out' = IF cli.quiet = 0
              THEN out \o [i \in 1..Len(said) |-> <<"stderr", said[i]>>] \o <<<<"stderr", "usage">>>>
              ELSE out
    /\ UNCHANGED args

program == <<pc, rc, phase, exchange, locals, files, fs0, target, status, sent, steps, ops, twin, pure>>

\* parseArgs: one turn of the loop over the named options
parseArgs_option ==
    /\ cli.pc = "options"
    /\ LET i == cli.nextArg
           argp == cli.argv[i]
       IN  IF i > Len(cli.argv)
           THEN /\ cli' = [cli EXCEPT !.pc = "main"]
                /\ UNCHANGED <<args, out>>
           ELSE IF argp = <<>> \/ argp[1] # "-"
           THEN /\ cli' = [cli EXCEPT !.pc = "properties"]
                /\ UNCHANGED <<args, out>>
           ELSE IF \E f \in DOMAIN opt : argp = opt[f]
           THEN IF i + 1 > Len(cli.argv)
                THEN usage(<<>>, TRUE)
                ELSE /\ cli' = [cli EXCEPT ![CHOOSE f \in DOMAIN opt : argp = opt[f]] = cli.argv[i + 1],
                                           !.nextArg = i + 2]
                     /\ UNCHANGED <<args, out>>
           ELSE IF argp \in HelpOptions
           THEN usage(<<>>, FALSE)
           ELSE IF argp \in QuietOptions
           THEN /\ cli' = [cli EXCEPT !.quiet = 1, !.nextArg = i + 1]
                /\ UNCHANGED <<args, out>>
           ELSE IF argp \in VerboseOptions
           THEN /\ cli' = [cli EXCEPT !.verbose = 1, !.nextArg = i + 1]
                /\ UNCHANGED <<args, out>>
           ELSE usage(<<>>, TRUE)
    /\ UNCHANGED program

\* parseArgs: one turn of the loop over the key=value arguments, and the
\* properties string when the arguments are used up
parseArgs_property ==
    /\ cli.pc = "properties"
    /\ LET i == cli.nextArg
           kv == strtok_r(cli.argv[i])
           count == Len(kv.key) + Len(kv.value) + 6
       IN  IF i > Len(cli.argv)
           THEN /\ cli' = [cli EXCEPT !.pc = "main",
                                      !.properties = IF cli.pbuf # <<>>
                                                     THEN SubSeq(cli.pbuf, 1, Len(cli.pbuf) - 1)
                                                     ELSE cli.pbuf]
                /\ UNCHANGED <<args, out>>
           ELSE IF kv.key = NULL \/ kv.value = <<>>
           THEN usage(<<"Invalid property format. Use: key=value">>, TRUE)
           ELSE IF Len(cli.pbuf) + count >= BUFFER_SIZE
           THEN usage(<<"Parameter buffer overflow - arguments too long">>, TRUE)
           ELSE /\ cli' = [cli EXCEPT !.pbuf = @ \o <<"\"">> \o kv.key \o <<"\"", ":", "\"">> \o kv.value \o <<"\"", ",">>,
                                      !.nextArg = i + 1]
                /\ UNCHANGED <<args, out>>
    /\ UNCHANGED program

\* main: usage() when a required option is missing, otherwise the call of update()
main ==
    /\ cli.pc = "main"
    /\ IF NULL \in {cli.host, cli.product, cli.token, cli.device, cli.version}
       THEN usage(<<>>, TRUE)
       ELSE /\ args' = [host |-> cli.host, product |-> cli.product, token |-> cli.token,
                        device |-> cli.device, version |-> cli.version, properties |-> cli.properties,
                        path |-> cli.file, script |-> cli.cmd, verbose |-> cli.verbose, quiet |-> cli.quiet]
            /\ cli' = [cli EXCEPT !.pc = "update", !.calls = @ + 1]
            /\ UNCHANGED out
    /\ UNCHANGED program

\* a step of update(), called by main
main_update ==
    /\ cli.pc = "update"
    /\ Next

\* main returns what update() returned; the exit status is its low byte
main_return ==
    /\ cli.pc = "update"
    /\ pc = "done"
    /\ cli' = [cli EXCEPT !.pc = "exited", !.exit = rc % 256]
    /\ UNCHANGED <<args, out, program>>

CliNext == parseArgs_option \/ parseArgs_property \/ main \/ main_update \/ main_return

\* the command lines: the five required options, with one argument put in
\* at the front, after the first option or at the end, with one argument left
\* out, or with two arguments added at the end
Required5 ==
    <<opt.host, PlainArgs.host, opt.product, PlainArgs.product, opt.token, PlainArgs.token,
      opt.device, PlainArgs.device, opt.version, PlainArgs.version>>
LongProperty(n) == <<"k", "=">> \o Pad(n)
Words ==
    {opt[f] : f \in DOMAIN opt} \cup HelpOptions \cup QuietOptions \cup VerboseOptions
    \cup {<<"-", "-", "b", "o", "g", "u", "s">>, <<"-">>, <<"f">>, <<"k", "=", "v">>, <<"k", "=">>, <<"=", "v">>, <<"k">>, <<>>, <<"k", "=", "v", "=", "w">>, <<"=", "k", "=", "v">>, <<"=", "=">>,
          LongProperty(BUFFER_SIZE - 8), LongProperty(BUFFER_SIZE - 7)}
CommandLines ==
    {Required5}
    \cup {SubSeq(Required5, 1, i) \o <<w>> \o SubSeq(Required5, i + 1, Len(Required5)) :
            i \in {0, 1, Len(Required5)}, w \in Words}
    \cup {SubSeq(Required5, 1, i - 1) \o SubSeq(Required5, i + 1, Len(Required5)) : i \in 1..Len(Required5)}
    \cup {Required5 \o w : w \in {<<opt.file, <<"f">>>>, <<opt.cmd, <<"s">>>>, <<<<"k", "=", "v">>, <<"j", "=", "w">>>>, <<<<"k", "=", "v">>, <<"-", "v">>>>,
                                   <<<<"-", "-", "b", "o", "g", "u", "s">>, <<"-", "h">>>>, <<<<"-", "h">>, <<"-", "-", "b", "o", "g", "u", "s">>>>}}

CliInit ==
    /\ Start(PlainArgs, NoFile)
    /\ twin = NoTwin
    /\ pure = NoCall
    /\ \E line \in CommandLines :
         cli = [pc |-> "options", argv |-> line, nextArg |-> 1,
                cmd |-> NULL, device |-> NULL, file |-> IMAGE_PATH, host |-> NULL, product |-> NULL,
                token |-> NULL, version |-> NULL, properties |-> NULL, verbose |-> 0, quiet |-> 0,
                pbuf |-> <<>>, calls |-> 0, exit |-> -1]
CliSpec == CliInit /\ [][CliNext]_vars

(* ---- the functions of updater.c applied on their own -------------------------- *)
\* the strings over the characters cs of at most n characters
RECURSIVE Strings(_, _)
Strings(cs, n) ==
    IF n = 0 THEN {<<>>} ELSE LET shorter == Strings(cs, n - 1)
                              IN  shorter \cup {Append(s, c) : s \in shorter, c \in cs}
idle == <<args, pc, rc, phase, exchange, locals, files, fs0, target, status, sent, steps, ops, out, twin, cli>>

\* json(jsonText, key), called twice on the same text
json_call ==
    /\ pure.fn = "json"
    /\ Len(pure.values) < 2
    /\ pure' = [pure EXCEPT !.values = Append(@, json(pure.text, pure.key))]
    /\ UNCHANGED idle

\* the texts: what may stand before the key, the key or something like it, and
\* every string of at most MaxTail of the characters a scan can meet; with the
\* texts and keys of the examples, a key of another key's last letters, and
\* keys of the length of the key buffer
JsonChars == {"\"", ":", ",", "}", "a"}
k_a == <<"a">>
JsonTexts ==
    {p \o m \o t : p \in {<<>>, <<"{">>, <<"{", "\"", "b", "\"", ":", "\"", "a", "\"", ",">>},
                   m \in {<<"\"", "a", "\"", ":">>, <<"\"", "x", "a", "\"", ":">>, <<"a", "\"", ":">>,
                          <<"\"", "a", "\"">>, <<>>},
                   t \in Strings(JsonChars, MaxTail)}
\* values with a backslash: x\"y (an escaped quote), \\ (an escaped
\* backslash before the closing quote), \\\"y (both)
EscapedValues ==
    {<<"x", "\\", "\"", "y">>, <<"\\", "\\">>, <<"\\", "\\", "\\", "\"", "y">>}
JsonExamples ==
    {[text |-> <<"{", "\"", "a", "\"", ":", "\"", "1", "\"", ",", "\"", "b", "\"", ":", "\"", "2", "\"", "}">>, key |-> <<"b">>],
     [text |-> <<"{", "\"", "a", "\"", ":", "1", "}">>, key |-> k_a],
     [text |-> <<"{", "\"", "a", "\"", ":", "\"", "1", "\"", "}">>, key |-> <<"z">>],
     [text |-> <<"{", "\"", "x", "u", "r", "l", "\"", ":", "\"", "1", "\"", "}">>, key |-> k_url],
     [text |-> <<"{", "\"", "x", "u", "r", "l", "\"", ":", "\"", "1", "\"", ",", "\"", "u", "r", "l", "\"", ":", "\"", "2", "\"", "}">>, key |-> k_url]}
    \cup {[text |-> <<"{", "\"">> \o Pad(n) \o <<"\"", ":", "\"", "1", "\"", "}">>, key |-> Pad(n)] : n \in {76, 77}}
    \cup {[text |-> <<"{", "\"", "a", "\"", ":", "\"">> \o v \o <<"\"", "}">>, key |-> k_a] : v \in EscapedValues}
JsonInit ==
    /\ Start(PlainArgs, NoFile)
    /\ twin = NoTwin
    /\ cli = NoCli
    /\ \E c \in {[text |-> t, key |-> k_a] : t \in JsonTexts} \cup JsonExamples :
         pure = [fn |-> "json", text |-> c.text, key |-> c.key, values |-> <<>>]
JsonSpec == JsonInit /\ [][json_call]_vars

\* update() against the servers that declare the checksum in its variants
SumInit ==
    /\ Start(PlainArgs, NoFile)
    /\ twin = NoTwin
    /\ cli = NoCli
    /\ pure = [fn |-> "getFileSum"]
SumSpec == SumInit /\ [][Next]_vars

\* the runs of update() whose download server may keep the connection open.
\* Every step of update() is taken in the end, except that SSL_read on a
\* connection that is open and has no bytes pending need not return
AliveInit ==
    /\ Start(PlainArgs, NoFile)
    /\ twin = NoTwin
    /\ cli = NoCli
    /\ pure = [fn |-> "keep-alive"]
Waiting == pc = "fetchFile_read" /\ wire = <<>> /\ StrStr(srv.download.head, h_keep) # 0
AliveSpec == AliveInit /\ [][Next]_vars /\ WF_vars(Next /\ ~Waiting)

(* ---- fetchFile() beside a process that changes the destination entry -------- *)
\* a file system object: its kind, its bytes, who created it, and for a
\* symbolic link the object it names (0 when it dangles)
Kinds == {"reg", "symlink", "dir", "fifo"}
Inode(k, d, by, to) == [kind |-> k, data |-> d, by |-> by, to |-> to]
\* a file of another owner that exists before the download starts
Victim == Inode("reg", <<"o">>, "other", 0)
\* what the other process can make of the entry at the path, given the
\* objects there are: no entry, a hard link to the file of the other owner,
\* or a new regular file, symbolic link (to that file or dangling),
\* directory or FIFO. Each is the list of objects and the one the entry names
Placed(nodes) ==
    {<<nodes, 0>>, <<nodes, 1>>}
    \cup {<<Append(nodes, Inode(k, <<>>, "other", 0)), Len(nodes) + 1>> : k \in Kinds}
    \cup {<<Append(nodes, Inode("symlink", <<>>, "other", 1)), Len(nodes) + 1>>}

\* the other process changes the entry at the path
Adversary ==
    /\ pure.fn = "fetchFile"
    /\ pure.at \notin {"closed", "failed"}
    /\ pure.moves < MaxMoves
    /\ \E p \in Placed(pure.inodes) :
         /\ p[2] # pure.entry
         /\ pure' = [pure EXCEPT !.inodes = p[1], !.entry = p[2], !.moves = @ + 1]
    /\ UNCHANGED idle

\* unlink(path): removes the entry, be it a file, a FIFO or a symbolic link
\* (the link itself); fails on a directory, on no entry, or for want of
\* permission. fetchFile does not look at the result
fetchFile_unlink ==
    /\ pure.fn = "fetchFile"
    /\ pure.at = "unlink"
    /\ \E ok \in BOOLEAN :
         pure' = [pure EXCEPT !.at = "open",
                              !.entry = IF ok /\ @ # 0 /\ pure.inodes[@].kind # "dir" THEN 0 ELSE @]
    /\ UNCHANGED idle

\* fetchFile_open had it opened the path with O_WRONLY|O_CREAT|O_TRUNC|O_NOFOLLOW:
\* an existing file or FIFO is opened, a file is truncated
fetchFile_open_noExcl ==
    /\ pure.fn = "fetchFile"
    /\ pure.at = "open"
    /\ \/ /\ pure.entry = 0
          /\ pure' = [pure EXCEPT !.inodes = Append(@, Inode("reg", <<>>, "fetchFile", 0)),
                                  !.entry = Len(pure.inodes) + 1,
                                  !.fd = Len(pure.inodes) + 1,
                                  !.at = "fstat"]
       \/ /\ pure.entry # 0
          /\ pure.inodes[pure.entry].kind \in {"reg", "fifo"}
          /\ pure' = [pure EXCEPT !.inodes[pure.entry].data = <<>>, !.fd = pure.entry, !.at = "fstat"]
       \/ pure' = [pure EXCEPT !.at = "failed"]
    /\ UNCHANGED idle

\* open(path, O_WRONLY|O_CREAT|O_EXCL|O_NOFOLLOW, 0600): with O_CREAT|O_EXCL
\* the call creates the file or fails; it fails with EEXIST when the path has
\* an entry of any kind, a symbolic link included, and may fail otherwise
fetchFile_open ==
    /\ pure.fn = "fetchFile"
    /\ pure.at = "open"
    /\ \/ /\ pure.entry = 0
          /\ pure' = [pure EXCEPT !.inodes = Append(@, Inode("reg", <<>>, "fetchFile", 0)),
                                  !.entry = Len(pure.inodes) + 1,
                                  !.fd = Len(pure.inodes) + 1,
                                  !.at = "fstat"]
       \/ pure' = [pure EXCEPT !.at = "failed"]
    /\ UNCHANGED idle

\* fstat(fd) and S_ISREG: on failure, or for an object that is no regular
\* file, the descriptor is closed and fetchFile returns -1
fetchFile_fstat ==
    /\ pure.fn = "fetchFile"
    /\ pure.at = "fstat"
    /\ \E ok \in BOOLEAN :
         IF ok /\ pure.inodes[pure.fd].kind = "reg"
         THEN pure' = [pure EXCEPT !.at = "write"]
         ELSE pure' = [pure EXCEPT !.at = "failed", !.fd = 0]
    /\ UNCHANGED idle

\* write(fd, ...): the bytes go to the object the descriptor refers to,
\* whatever the path names by now; a failed write closes the descriptor
fetchFile_store ==
    /\ pure.fn = "fetchFile"
    /\ pure.at = "write"
    /\ pure.left # <<>>
    /\ \/ pure' = [pure EXCEPT !.inodes[pure.fd].data = Append(@, Head(pure.left)),
                                !.left = Tail(@),
                                !.wrote = @ \cup {pure.fd}]
       \/ pure' = [pure EXCEPT !.at = "failed", !.fd = 0]
    /\ UNCHANGED idle

\* close(fd) when the body is stored
fetchFile_close ==
    /\ pure.fn = "fetchFile"
    /\ pure.at = "write"
    /\ pure.left = <<>>
    /\ pure' = [pure EXCEPT !.at = "closed", !.fd = 0]
    /\ UNCHANGED idle

RaceNext ==
    \/ Adversary
    \/ fetchFile_unlink
    \/ fetchFile_open
    \/ fetchFile_fstat
    \/ fetchFile_store
    \/ fetchFile_close

\* fetchFile is entered with any entry at the path the other process may
\* have left there
RaceInit ==
    /\ Start(PlainArgs, NoFile)
    /\ twin = NoTwin
    /\ cli = NoCli
    /\ \E p \in Placed(<<Victim>>) :
         pure = [fn |-> "fetchFile", at |-> "unlink", inodes |-> p[1], entry |-> p[2], fd |-> 0,
                 left |-> GoodImage, wrote |-> {}, moves |-> 0]
RaceSpec == RaceInit /\ [][RaceNext]_vars

(* ---- what a run did, read off the record of the run ------------------------ *)
Has(op, ph) == \E i \in 1..Len(ops) : ops[i] = <<op, ph>>
Step(s) == \E i \in 1..Len(steps) : steps[i] = s
Wrote(ph) == \E i \in 1..Len(sent) : sent[i].phase = ph
OnlyCheckPhase ==
    /\ \A i \in 1..Len(ops) : ops[i][2] = "check"
    /\ \A i \in 1..Len(sent) : sent[i].phase = "check"
FileUntouched == fs = fs0 /\ ~fdOpen

\* what the check server declared, field by field
HasField(body, k) == StrStr(body, <<"\"">> \o k \o <<"\"", ":">>) # 0
DescriptorKeys == {k_url, k_checksum, k_update, k_version}
CheckBodies == {r.body : r \in ServerResponses("check") \cup SumResponses \cup {NoResponse}}
DeclaredIn == [b \in CheckBodies |-> [k \in DescriptorKeys |-> json(b, k)]]
Declared(k) == DeclaredIn[srv.check.body][k]
WithField(k) == {b \in CheckBodies : HasField(b, k)}
CompleteBodies == {b \in CheckBodies : \A k \in DescriptorKeys : HasField(b, k)}
CompleteDescriptor == srv.check.body \in CompleteBodies

\* a response that no reading of HTTP takes for a 200
Rejected(r) == r # NoResponse /\ ~StartsWith(r.head, s_http11 \o <<"2", "0", "0", " ">>)

\* the url each exchange is made to
UrlOf(ph) ==
    CASE ph = "check" -> CheckUrl(args.host)
      [] ph = "download" -> Declared(k_url)
      [] OTHER -> ReportUrl(args.host)

\* the order in which update() may touch the outside world
Rank(e) ==
    CASE e[2] = "check" -> 1
      [] e[2] = "report" -> 5
      [] e[1] = "run" -> 4
      [] e[1] \in {"fopen", "EVP_Digest"} -> 3
      [] OTHER -> 2
StepOrder == <<"check", "download", "verify", "apply", "report">>

(* ---- C1 --------------------------------------------------------------------- *)
\* C1: the apply script runs at most once, and only after the check POST gave
\* a complete descriptor, the download was streamed to the destination file and
\* the sum of that file equalled the declared checksum; check, download,
\* verify, apply and report never happen out of that order.
C1_ApplyOnlyAfterVerifiedDownload ==
    /\ Cardinality({i \in 1..Len(ops) : ops[i][1] = "run"}) <= 1
    /\ Len(steps) <= Len(StepOrder) /\ steps = SubSeq(StepOrder, 1, Len(steps))
    /\ \A i \in 1..(Len(ops) - 1) : Rank(ops[i]) <= Rank(ops[i + 1])
    /\ Has("run", "download") =>
         /\ \E i \in 1..Len(sent) : sent[i].phase = "check" /\ sent[i].ok
         /\ CompleteDescriptor
         /\ \E i \in 1..Len(sent) : sent[i].phase = "download" /\ sent[i].ok
         /\ Has("open", "download") /\ Has("close", "download") /\ ~fdOpen
         /\ fs.kind = "reg"
         /\ getFileSum(fs.data) = Declared(k_checksum)
C1_Witness == Has("run", "download") /\ pc = "done"

(* ---- C2 --------------------------------------------------------------------- *)
\* C2: when the sum computed over the downloaded file differs from the declared
\* checksum, update() fails, does not run the script and takes no later step.
C2_MismatchFails ==
    (Has("EVP_Digest", "download") /\ getFileSum(fs.data) # Declared(k_checksum)) =>
        /\ ~Has("run", "download")
        /\ ~Step("verify") /\ ~Step("apply") /\ ~Step("report")
        /\ \A i \in 1..Len(ops) : ops[i][2] # "report"
        /\ ~Wrote("report")
        /\ pc \in {"cleanup", "done"}
        /\ rc = -1
C2_Witness ==
    /\ pc = "done"
    /\ Has("EVP_Digest", "download")
    /\ srv.download.body = BadImage
    /\ getFileSum(fs.data) # Declared(k_checksum)

(* ---- C3 --------------------------------------------------------------------- *)
HandshakeFailed(ph) ==
    \E i \in 1..(Len(ops) - 1) :
        /\ ops[i] \in {<<"SSL_CTX_new=NULL", ph>>, <<"SSL_CTX_new", ph>>, <<"SSL_new", ph>>,
                       <<"SSL_connect", ph>>}
        /\ ops[i + 1][1] \in {"SSL_free", "SSL_CTX_free", "closesocket"}

\* C3: request bytes are written only on a session whose handshake completed
\* with peer verification on and the host name check bound to the host parsed
\* from the url; every connection is to port 443; when the TLS setup or the
\* handshake fails nothing is written and update() fails.
C3_WritesOnlyOnVerifiedSession ==
    /\ \A i \in 1..Len(sent) :
         /\ sent[i].fp.ssl /\ sent[i].fp.connected
         /\ sent[i].fp.verify
         /\ sent[i].fp.vhost = parseUrl(UrlOf(sent[i].phase)).host
         /\ sent[i].fp.fd >= 0 /\ sent[i].fp.port = SERVER_PORT
    /\ fp.fd >= 0 => fp.port = SERVER_PORT
    /\ \A ph \in {"check", "download", "report"} :
         HandshakeFailed(ph) => /\ ~Wrote(ph)
                                /\ pc \in {"cleanup", "done"}
                                /\ rc = -1
C3_Witness ==
    /\ args.host = <<"h", "t", "t", "p", ":", "/", "/", "b">>
    /\ Wrote("check") /\ Wrote("download") /\ Wrote("report")
    /\ sent[1].fp.vhost = <<"h", "t", "t", "p", ":">>

(* ---- C4 --------------------------------------------------------------------- *)
FitsCheck ==
    /\ Len(CheckUrl(args.host)) < UBSIZE
    /\ Len(CheckBody(args.device, args.product, args.version, args.properties)) < UBSIZE
    /\ Len(AuthHeaders(args.token)) < HEADERS_SIZE

\* C4: with host, product, token, device, version or path NULL update()
\* returns -1 and has opened no socket, looked up no name, created no file and
\* run no script; NULL properties and a NULL script are accepted.
C4_NullArgRejected ==
    /\ (\E i \in 1..6 : Required(args)[i] = NULL) =>
         /\ ops = <<>> /\ sent = <<>> /\ steps = <<>>
         /\ FileUntouched
         /\ rc = -1
         /\ pc \in {"start", "cleanup", "done"}
    /\ ( /\ args.properties = NULL \/ args.script = NULL
         /\ \A i \in 1..6 : Required(args)[i] # NULL
         /\ FitsCheck
         /\ pc \notin {"start", "format"} ) => phase # "none"
C4_Witness == pc = "done" /\ args.path = NULL /\ rc = -1

(* ---- C5 --------------------------------------------------------------------- *)
\* C5: with host, product, token, device, version or path empty update()
\* fails without any network activity.
C5_EmptyArgRejected ==
    (\E i \in 1..6 : Required(args)[i] = <<>>) =>
        /\ ops = <<>> /\ sent = <<>>
        /\ pc = "done" => rc = -1

(* ---- C6 --------------------------------------------------------------------- *)
\* C6: when the check exchange succeeds and the body has no "url" field,
\* update() returns success, the destination path is left as it was and no
\* download, apply or report step occurs.
C6_NoUpdateLeavesFileAlone ==
    (Step("check") /\ srv.check.body \notin WithField(k_url)) =>
        /\ FileUntouched
        /\ OnlyCheckPhase
        /\ steps = <<"check">>
        /\ pc \in {"json", "cleanup", "done"}
        /\ pc \in {"cleanup", "done"} => rc = 0
C6_Witness ==
    /\ pc = "done" /\ rc = 0
    /\ Step("check") /\ srv.check.body = NoUpdateBody
    /\ fs0.kind = "reg" /\ fs = fs0

(* ---- C7 --------------------------------------------------------------------- *)
\* C7: when the check response has "url" but lacks "checksum", "update" or
\* "version", update() fails and never connects for the download, never
\* creates the destination file and never runs the script.
C7_IncompleteDescriptorFails ==
    (Step("check") /\ srv.check.body \in WithField(k_url) /\ ~CompleteDescriptor) =>
        /\ FileUntouched
        /\ OnlyCheckPhase
        /\ steps = <<"check">>
        /\ pc \in {"json", "cleanup", "done"}
        /\ rc = -1
C7_Witness ==
    /\ pc = "done" /\ rc = -1
    /\ Step("check") /\ srv.check.body = NoVersionBody

(* ---- C8 --------------------------------------------------------------------- *)
\* C8: when the declared download url does not begin with "https://",
\* update() fails before any lookup of or connection to that url's host and
\* before the destination file is touched.
C8_InsecureUrlRefused ==
    (Step("check") /\ CompleteDescriptor /\ ~StartsWith(Declared(k_url), s_https)) =>
        /\ FileUntouched
        /\ OnlyCheckPhase
        /\ steps = <<"check">>
        /\ pc \in {"json", "checkUrl", "cleanup", "done"}
        /\ rc = -1
C8_Witness ==
    /\ pc = "done" /\ rc = -1
    /\ Step("check") /\ srv.check.body = InsecureBody

(* ---- C9 --------------------------------------------------------------------- *)
\* C9: when the check exchange fails (connection, TLS, a status other than
\* 200, a malformed response) update() returns -1 and has not created the
\* destination file, sent the download or report request or run the script,
\* whatever properties, script, path, device and version are.
C9_CheckFailureFails ==
    /\ ~Step("check") =>
         /\ FileUntouched
         /\ OnlyCheckPhase
         /\ steps = <<>>
         /\ rc = -1
    /\ Rejected(srv.check) => ~Step("check") /\ pc \in {"cleanup", "done"}
C9_Witness ==
    /\ pc = "done" /\ rc = -1
    /\ srv.check.head = HeadUnauthorized
    /\ ~Step("check")
    /\ Wrote("check")

(* ---- C10 -------------------------------------------------------------------- *)
\* C10: when the report POST fails, update() returns failure although the
\* update was downloaded, verified and the script has run.
C10_ReportFailureFails ==
    /\ (Step("apply") /\ ~Step("report")) => rc = -1
    /\ Rejected(srv.report) => ~Step("report") /\ pc \in {"cleanup", "done"}
C10_Witness ==
    /\ pc = "done" /\ rc = -1
    /\ Step("download") /\ Step("verify") /\ Step("apply") /\ ~Step("report")
    /\ srv.report.head = HeadUnauthorized

(* ---- C11 -------------------------------------------------------------------- *)
s_successFalse == <<"\"", "s", "u", "c", "c", "e", "s", "s", "\"", ":", "f", "a", "l", "s", "e">>
ReportRequests == {i \in 1..Len(sent) : sent[i].phase = "report"}

C12_ScriptFailureFails ==
    (Step("apply") /\ status # 0 /\ pc = "done") => rc = -1

(* ---- C13 -------------------------------------------------------------------- *)
\* C13: every run that downloaded the update and found its checksum right
\* has started the report exchange by the time update() returns, with or
\* without an apply script.
C13_VerifiedUpdateReported ==
    (Step("download") /\ Step("verify") /\ pc = "done") =>
        \E i \in 1..Len(ops) : ops[i][2] = "report"

(* ---- C14 -------------------------------------------------------------------- *)
k_success == <<"s", "u", "c", "c", "e", "s", "s">>
k_id == <<"i", "d">>
\* the body of a request as the server receives it
BodyOf(request) == From(request, StrStr(request, s_sep) + Len(s_sep))

\* C14: the body of the report request says success true exactly when the
\* script exited with status 0 and false after every other outcome, and it
\* carries the caller's device id and the update identifier the check
\* response of this run declared.
C14_ReportCarriesOutcome ==
    \A i \in ReportRequests :
        LET body == BodyOf(sent[i].request)
        IN  /\ json(body, k_success) = IF status = 0 THEN <<"t", "r", "u", "e">> ELSE <<"f", "a", "l", "s", "e">>
            /\ json(body, k_id) = args.device
            /\ json(body, k_update) = Declared(k_update)
            /\ Step("apply")
C14_Witness ==
    /\ pc = "done"
    /\ status = 1
    /\ \E i \in ReportRequests :
         /\ sent[i].ok
         /\ json(BodyOf(sent[i].request), k_success) = <<"f", "a", "l", "s", "e">>
         /\ json(BodyOf(sent[i].request), k_update) = <<"u">>

(* ---- C15 -------------------------------------------------------------------- *)
Phases == {"check", "download", "report"}
Count(name, ph) == Cardinality({i \in 1..Len(ops) : ops[i] = <<name, ph>>})
\* every fetch() begins with the malloc of fetchAlloc
Attempts(ph) == Count("malloc", ph)
Writes(ph) == Cardinality({i \in 1..Len(sent) : sent[i].phase = ph})
StepsBefore(ph) ==
    CASE ph = "check" -> <<>>
      [] ph = "download" -> <<"check">>
      [] OTHER -> <<"check", "download", "verify", "apply">>
\* the exchange of phase ph was started and the run ended without its step
Failed(ph) == Attempts(ph) > 0 /\ ~Step(ph) /\ pc \in {"cleanup", "done"}

\* C15: the check, download and report exchanges are each started at most
\* once and write at most one request; once one of them has failed the run
\* ends in the phase it failed in, with no step completed and no call made
\* beyond it.
C15_NoRetry ==
    \A ph \in Phases :
        /\ Attempts(ph) <= 1 /\ Writes(ph) <= 1
        /\ Count("socket", ph) + Count("socket=-1", ph) <= 1
        /\ Failed(ph) =>
             /\ phase = ph
             /\ steps = StepsBefore(ph)
             /\ \A i \in 1..Len(ops) : ops[i][1] \notin {"fopen", "EVP_Digest", "run"} \/ ph = "report"
             /\ rc = -1
C15_Witness ==
    /\ pc = "done"
    /\ Attempts("check") = 1 /\ Attempts("download") = 1 /\ Attempts("report") = 0
    /\ Writes("download") = 1
    /\ Failed("download")
    /\ srv.download.head = HeadUnauthorized

(* ---- C16 -------------------------------------------------------------------- *)
\* what a session holds: the call that hands it out and the call that releases it
Held == {<<"malloc", "free">>, <<"socket", "closesocket">>, <<"SSL_CTX_new", "SSL_CTX_free">>,
         <<"SSL_new", "SSL_free">>, <<"memdup", "free(body)">>}
Positions(e) == {i \in 1..Len(ops) : ops[i] = e}
\* the positions of update() at which the session of the current exchange is in use
InUse == {"send", "read", "parse", "fetchString", "fetchString_read", "fetchFile", "fetchFile_write",
          "fetchFile_read", "reported"}

\* C16: whatever a session was handed (the Fetch structure, the socket, the
\* TLS context, the TLS handle, the body fragment) is released exactly once
\* and after it was handed out, on the successful and on every failing path;
\* when update() returns nothing is held; a session that is read, written or
\* handed to fetchString or fetchFile has not been released.
C16_SessionsReleasedOnce ==
    /\ pc \in InUse =>
         /\ fp.live /\ fp.fd >= 0 /\ fp.ctx /\ fp.ssl /\ fp.connected
         /\ \A h \in Held : h[1] # "memdup" => Positions(<<h[2], phase>>) = {}
    /\ pc = "done" =>
         /\ ~fp.live /\ fp.body = NULL
         /\ \A ph \in Phases : \A h \in Held :
              LET got == Positions(<<h[1], ph>>)
                  released == Positions(<<h[2], ph>>)
              IN  /\ Cardinality(got) <= 1
                  /\ Cardinality(released) = Cardinality(got)
                  /\ \A a \in got : \A r \in released : a < r
         /\ \A ph \in Phases : \A r \in Positions(<<"SSL_free", ph>>) \cup Positions(<<"closesocket", ph>>) :
              \A u \in Positions(<<"SSL_connect", ph>>) \cup Positions(<<"SSL_write", ph>>)
                        \cup Positions(<<"SSL_read", ph>>) : u < r
C16_Witness ==
    /\ pc = "done"
    /\ Positions(<<"memdup", "download">>) # {} /\ Positions(<<"free(body)", "download">>) # {}
    /\ Positions(<<"write", "download">>) # {} /\ ~Step("download")
    /\ Positions(<<"SSL_free", "download">>) # {} /\ Positions(<<"free", "download">>) # {}
    /\ Positions(<<"SSL_free", "check">>) # {}

(* ---- C17 -------------------------------------------------------------------- *)
\* the positions of update() between two exchanges and after the last
Between == {"start", "format", "json", "checkUrl", "verify", "apply", "postReport", "fetch", "connect", "done"}
\* where the log holds the calls that open and close the socket and the TLS handle
Session == {"socket", "closesocket", "SSL_new", "SSL_free"}
SessionCalls == [e \in Session \X Phases |-> Positions(e)]
\* the socket and the TLS handle of exchange ph, found at the positions given
\* by at, were closed before position p of the log
ClosedBefore(at, ph, p) ==
    /\ \A a \in at[<<"socket", ph>>] : \E r \in at[<<"closesocket", ph>>] : a < r /\ r < p
    /\ \A a \in at[<<"SSL_new", ph>>] : \E r \in at[<<"SSL_free", ph>>] : a < r /\ r < p
Opens(at, ph) == at[<<"socket", ph>>] \cup at[<<"SSL_new", ph>>]

\* C17: at most one session is open at any point of a run: the socket and
\* the TLS handle of the check exchange are closed before those of the
\* download exchange are opened, and those of the download exchange are closed
\* before the file is summed, the script is run and the report exchange opens.
\* Between two exchanges no session is live; the order of the calls is read
\* off the log of the finished run, which holds every call the run made.
C17_OneSessionAtATime ==
    /\ pc \in Between => ~fp.live /\ fp.fd < 0 /\ ~fp.ssl
    /\ pc = "done" =>
         LET at == SessionCalls
             local == {i \in 1..Len(ops) : ops[i][1] \in {"fopen", "EVP_Digest", "run"}}
         IN  /\ \A ph \in Phases : Cardinality(Opens(at, ph)) <= 2 /\ Cardinality(at[<<"socket", ph>>]) <= 1
             /\ \A p \in Opens(at, "download") : ClosedBefore(at, "check", p)
             /\ \A p \in Opens(at, "report") : ClosedBefore(at, "check", p) /\ ClosedBefore(at, "download", p)
             /\ \A p \in local : ClosedBefore(at, "check", p) /\ ClosedBefore(at, "download", p)
C17_Witness ==
    /\ pc = "done" /\ rc = 0
    /\ Step("report")
    /\ Positions(<<"socket", "check">>) # {} /\ Positions(<<"socket", "download">>) # {}
    /\ Positions(<<"socket", "report">>) # {}
    /\ Positions(<<"closesocket", "check">>) # {} /\ Positions(<<"closesocket", "download">>) # {}
    /\ Positions(<<"run", "download">>) # {}

(* ---- C18 -------------------------------------------------------------------- *)
\* a header block every reading of the claim takes: HTTP/1.1, status 200,
\* the separator, and a header line whose name is Content-Length
Acceptable(head) ==
    /\ StartsWith(head, s_http11)
    /\ ResponseStatus(head) = 200
    /\ StrStr(head, s_sep) # 0
    /\ StrStr(head, s_crlf \o s_contentLength \o <<":">>) # 0
\* fetch() returned a session for the exchange of phase ph
Yielded(ph) ==
    \/ phase = ph /\ pc \in {"fetchString", "fetchString_read", "fetchFile", "fetchFile_write",
                              "fetchFile_read", "reported"}
    \/ Step(ph)

\* C18: fetch() yields a session only for a response that begins with
\* "HTTP/1.1 ", has status 200, holds the separator in its first read and has
\* a Content-Length header; after any other response the exchange has failed,
\* the session is released, no transfer of the body begins and no second
\* connection is made.
C18_OnlyWellFormedYields ==
    \A ph \in Phases :
        (srv[ph] # NoResponse /\ ~Acceptable(srv[ph].head)) =>
            /\ ~Yielded(ph)
            /\ pc \in {"parse", "cleanup", "done"}
            /\ pc # "parse" => ~fp.live /\ rc = -1
            /\ phase = ph /\ Attempts(ph) = 1

(* ---- C19 -------------------------------------------------------------------- *)
TooLong == HeadOk(MAX_CONTENT_LENGTH + 1)
Longest == HeadOk(MAX_CONTENT_LENGTH)

\* C19: the contentLength of a session fetch() returned is between 0 and
\* 100 MiB, so fetchString() never holds more than that many body bytes; a
\* response that declares more, or a negative length, yields no session.
C19_ContentLengthBounded ==
    /\ fp.contentLength >= 0 /\ fp.contentLength <= 104857600
    /\ Len(buf) <= fp.contentLength \/ pc # "fetchString_read"
    /\ \A ph \in Phases : srv[ph].head \in {TooLong, HeadNegativeLength} =>
         ~Yielded(ph) /\ (pc = "parse" \/ ~fp.live)
C19_Witness ==
    /\ pc = "fetchString_read"
    /\ srv.check.head = Longest
    /\ fp.live /\ fp.contentLength = 104857600

(* ---- C20 -------------------------------------------------------------------- *)
\* fetchFile() has begun on the destination path
Began == \E i \in 1..Len(ops) : ops[i] \in {<<"unlink", "download">>, <<"open", "download">>}
EntryExisted == fs0.kind \in {"reg", "symlink"} /\ args.path # <<>>

C21_LinkTargetUntouched ==
    fs0.kind = "symlink" =>
        /\ target = TargetOf(fs0)
        /\ fdOpen => fs.kind = "reg"
        /\ fs.kind = "symlink" => fs = fs0
C21_Witness ==
    /\ pc = "done"
    /\ fs0 = LinkToFile /\ args.path # <<>>
    /\ Step("download")
    /\ fs = RegFile(GoodImage, 384)
    /\ target = RegFile(<<"o">>, 420)

(* ---- C22 -------------------------------------------------------------------- *)
\* the bytes the three formats of the check request need, terminator aside:
\* "%s/tok/provision/update", the body with its 35 bytes of punctuation and
\* names, and the 49 bytes around the token
UrlBytes == Len(args.host) + 21
BodyBytes ==
    35 + Len(args.device) + Len(args.product) + Len(args.version)
    + (IF args.properties # NULL THEN 1 + Len(args.properties) ELSE 0)
HeaderBytes == 49 + Len(args.token)
Oversized == UrlBytes >= 4096 \/ BodyBytes >= 4096 \/ HeaderBytes >= 256

\* C22: when the check url or the check body would need 4096 bytes or more,
\* or the headers 256 bytes or more, update() returns -1 with no call made
\* and no request built; what it hands to fetch() is shorter than the buffer
\* it was formatted in, and arguments that format to fewer bytes start the
\* check exchange.
C22_OversizedRejected ==
    /\ (Oversized /\ pc \notin {"start", "format"}) =>
         /\ pc \in {"cleanup", "done"} /\ rc = -1
         /\ ops = <<>> /\ sent = <<>> /\ steps = <<>>
         /\ phase = "none" /\ req = NoRequest
         /\ fs = fs0
    /\ phase = "check" =>
         /\ Len(req.url) < 4096 /\ Len(req.body) < 4096 /\ Len(req.headers) < 256
         /\ req.url = CheckUrl(args.host)
         /\ req.body = CheckBody(args.device, args.product, args.version, args.properties)
         /\ req.headers = AuthHeaders(args.token)
    /\ (~Oversized /\ pc \notin {"start", "format"}) => phase # "none"
C22_Witness ==
    /\ pc = "done" /\ rc = -1
    /\ BodyBytes = 4096 /\ UrlBytes < 4096 /\ HeaderBytes < 256
    /\ ops = <<>>
\* arguments one byte short of the buffers pass the test
C22_WitnessFits ==
    /\ phase = "check" /\ pc = "fetch"
    /\ UrlBytes = 4095

(* ---- C24 -------------------------------------------------------------------- *)
Stdout == {i \in 1..Len(out) : out[i][1] = "stdout"}

\* C24: with quiet non-zero update() writes nothing to standard output at any
\* step, whether or not verbose is set.
C24_QuietSilencesStdout == args.quiet # 0 => Stdout = {}


(* ---- C23 ------------------------------------------------------------------ *)
\* C23: two runs of update() that differ only in verbose and quiet return the
\* same value and go through the same operations: whatever step one of them
\* takes, the other has the same step from the same state, with the same
\* calls, requests, file writes and return value; only the text written differs.
C23_FlagsChangeOutputOnly ==
    (twin.mode = "follow" /\ twin.pre = Snapshot) => ENABLED Twin_FollowStep
\* both runs have returned 0 after the whole update, one having written text
\* the other did not
C23_Witness ==
    /\ twin.mode = "idle" /\ pc = "done" /\ rc = 0 /\ Step("report")
    /\ FlagsOf(args) # twin.flags
    /\ out # twin.other


(* ---- C25 -------------------------------------------------------------------- *)
\* a trailing argument of the form key=value: a key, the first '=', a value
KeyValue(t) == StrChr(t, "=") > 1 /\ StrChr(t, "=") < Len(t)
\* what the command line asks for, read left to right: "usage" for an unknown
\* option, an option without its value, a trailing argument that is not
\* key=value or a required option that was not given; "help" for --help;
\* otherwise "run" with the file to save to
RECURSIVE Reading(_, _, _, _)
Reading(argv, i, given, file) ==
    LET ends == IF {"host", "product", "token", "device", "version"} \subseteq given
                THEN [kind |-> "run", file |-> file] ELSE [kind |-> "usage", file |-> file]
    IN  IF i > Len(argv) THEN ends
        ELSE IF argv[i] \in HelpOptions THEN [kind |-> "help", file |-> file]
        ELSE IF argv[i] \in QuietOptions \cup VerboseOptions THEN Reading(argv, i + 1, given, file)
        ELSE IF \E f \in DOMAIN opt : argv[i] = opt[f]
             THEN IF i = Len(argv) THEN [kind |-> "usage", file |-> file]
                  ELSE Reading(argv, i + 2, given \cup {f \in DOMAIN opt : argv[i] = opt[f]},
                               IF argv[i] = opt.file THEN argv[i + 1] ELSE file)
        ELSE IF argv[i] # <<>> /\ argv[i][1] = "-" THEN [kind |-> "usage", file |-> file]
        ELSE IF \E j \in i..Len(argv) : ~KeyValue(argv[j]) THEN [kind |-> "usage", file |-> file]
        ELSE ends

\* C25: the command line program exits with 2 without calling update() on a
\* usage error (an unknown option, an option without its value, a required
\* option missing, a trailing argument that is not key=value with a value);
\* --help exits with 0; otherwise update() is called exactly once, with the
\* file of --file or update.bin, and the exit status is 0 exactly when
\* update() returned 0.
C25_CliContract ==
    /\ cli.pc \in {"options", "properties", "main"} => cli.calls = 0
    /\ cli.pc = "update" => cli.calls = 1 /\ args.path = Reading(cli.argv, 1, {}, IMAGE_PATH).file
    /\ cli.pc = "exited" =>
         LET asked == Reading(cli.argv, 1, {}, IMAGE_PATH)
         IN  CASE asked.kind = "usage" -> cli.exit = 2 /\ cli.calls = 0
               [] asked.kind = "help" -> cli.exit = 0 /\ cli.calls = 0
               [] OTHER -> /\ cli.calls = 1
                           /\ args.path = asked.file
                           /\ (cli.exit = 0) <=> (rc = 0)

(* ---- C26 -------------------------------------------------------------------- *)
\* where the literal "key": occurs in text
Occurs(text, key) ==
    {i \in 1..Len(text) : \A j \in 1..(Len(key) + 3) :
        i + j - 1 <= Len(text) /\ text[i + j - 1] = (<<"\"">> \o key \o <<"\"", ":">>)[j]}
\* v is what extract(text, key) is to return: nothing when "key": does not
\* occur; otherwise the characters after its first occurrence, an opening
\* quote skipped, up to the next quote for a quoted value and up to the next
\* ',' or '}' for a bare one, or up to the end of the text
Extracted(text, key, v) ==
    IF Occurs(text, key) = {} THEN v = NULL
    ELSE LET p == Min(Occurs(text, key)) + Len(key) + 3
             quoted == p <= Len(text) /\ text[p] = "\""
             from == IF quoted THEN p + 1 ELSE p
             ends == IF quoted THEN {"\""} ELSE {",", "}"}
         IN  \E to \in (from - 1)..Len(text) :
                /\ v = SubSeq(text, from, to)
                /\ \A j \in from..to : text[j] \notin ends
                /\ to = Len(text) \/ text[to + 1] \in ends

\* C26 as stated: extract(text, key) is a function of text and key that
\* returns the value after the first "key": for every text and every key.
C26_ExtractEveryKey ==
    \A i \in 1..Len(pure.values) : Extracted(pure.text, pure.key, pure.values[i])
\* C26: for a key that fits the 80-byte key buffer with its quotes and colon,
\* json(text, key) returns the value after the first "key": in text, or
\* nothing when it does not occur, the same on every call; for a longer key
\* it returns nothing.
C26_ExtractKeyThatFits ==
    pure.fn = "json" =>
        \A i \in 1..Len(pure.values) :
            IF Len(pure.key) + 3 < 80 THEN Extracted(pure.text, pure.key, pure.values[i])
            ELSE pure.values[i] = NULL
\* the second url of a text whose first key only ends in url
C26_Witness ==
    /\ pure.fn = "json" /\ pure.key = k_url
    /\ Cardinality(Occurs(pure.text, <<"x">> \o k_url)) = 1 /\ Cardinality(Occurs(pure.text, k_url)) = 1
    /\ pure.values = <<<<"2">>, <<"2">>>>

(* ---- C27 -------------------------------------------------------------------- *)
\* the value of a lowercase hexadecimal character, 16 for any other character
LowerHex(c) ==
    CASE c = "0" -> 0 [] c = "1" -> 1 [] c = "2" -> 2 [] c = "3" -> 3 [] c = "4" -> 4 [] c = "5" -> 5
      [] c = "6" -> 6 [] c = "7" -> 7 [] c = "8" -> 8 [] c = "9" -> 9 [] c = "a" -> 10 [] c = "b" -> 11
      [] c = "c" -> 12 [] c = "d" -> 13 [] c = "e" -> 14 [] c = "f" -> 15 [] OTHER -> 16
\* sum is the digest hash in lowercase hexadecimal, two characters a byte
Renders(sum, hash) ==
    /\ Len(sum) = 2 * Len(hash)
    /\ \A i \in 1..Len(hash) :
         LowerHex(sum[2 * i - 1]) < 16 /\ LowerHex(sum[2 * i]) < 16
         /\ 16 * LowerHex(sum[2 * i - 1]) + LowerHex(sum[2 * i]) = hash[i]

\* C27: getFileSum renders the digest of the file as two lowercase hexadecimal
\* characters for each of its bytes, in order, and update() goes on to apply
\* an update only when the checksum the server declared is that very string:
\* one in capital letters, shorter, longer or with a space around it is a
\* mismatch, and update() returns -1 without running the script.
C27_ExactChecksumOnly ==
    Has("EVP_Digest", "download") =>
        /\ Renders(getFileSum(fs.data), EVP_Digest(fs.data))
        /\ Len(getFileSum(fs.data)) = 2 * MdLen
        /\ Step("verify") => Declared(k_checksum) = getFileSum(fs.data)
        /\ (Declared(k_checksum) # getFileSum(fs.data)) =>
                /\ pc \in {"cleanup", "done"} /\ rc = -1
                /\ ~Step("apply") /\ ~Has("run", "download") /\ ~Step("report")
\* the image is whole in the file and the server declared its checksum in
\* capital letters
C27_Witness ==
    /\ pc = "done" /\ rc = -1 /\ Has("EVP_Digest", "download") /\ fs.data = GoodImage
    /\ Declared(k_checksum) = Upper(getFileSum(fs.data))
    /\ Declared(k_checksum) # getFileSum(fs.data)

(* ---- C28 -------------------------------------------------------------------- *)
\* C28: after a checksum mismatch update() returns with the downloaded file in
\* place, holding the bytes that were written; and from the moment fetchFile
\* has closed the file no step of update() removes it, truncates it, rewrites
\* it or opens it again, whether the run ends in a mismatch, a failed script,
\* a failed report or a success.
C28_FileKeptAfterClose ==
    /\ [](Has("EVP_Digest", "download") =>
            /\ Has("close", "download") /\ fs.kind = "reg" /\ ~fdOpen
            /\ \A i \in 1..Len(fs.data) : \E j \in i..Len(srv.download.body) : fs.data[i] = srv.download.body[j])
    /\ [][Has("close", "download") => (fs' = fs /\ fdOpen' = FALSE)]_vars
\* update() has returned -1 for a checksum mismatch and the image the server
\* sent is in the file
C28_Witness ==
    /\ pc = "done" /\ rc = -1 /\ Has("EVP_Digest", "download") /\ ~Step("verify")
    /\ fs = RegFile(BadImage, 384)

(* ---- C29 -------------------------------------------------------------------- *)
\* the state of exchange ph, the last one it entered: Connecting while
\* connectToHost runs, Handshaking from the connected socket until the request
\* is written, RequestSent once sendHttpRequest returned 0, HeadersParsed once
\* readAndValidateResponse returned the header block with a 200 status line,
\* BodyFragmentCaptured or NoBody once parseResponseBody returned 0 (with or
\* without a copy of body bytes) and until fetchFree, Closed after fetchFree
ExchangeState(ph) ==
    IF Has("free", ph) THEN "Closed"
    ELSE IF phase = ph /\ pc = "connect" THEN "Connecting"
    ELSE IF phase = ph /\ pc \in {"tls", "handshake", "send"} THEN "Handshaking"
    ELSE IF phase = ph /\ pc = "read" THEN "RequestSent"
    ELSE IF phase = ph /\ pc = "parse" THEN "HeadersParsed"
    ELSE IF phase = ph /\ fp.live THEN (IF Has("memdup", ph) THEN "BodyFragmentCaptured" ELSE "NoBody")
    ELSE "NotBegun"
\* the moves of the state machine: one state forward, or Closed from any state
\* an exchange can fail in
ExchangeOrder ==
    {<<"NotBegun", "Connecting">>, <<"Connecting", "Handshaking">>, <<"Handshaking", "RequestSent">>,
     <<"RequestSent", "HeadersParsed">>, <<"HeadersParsed", "BodyFragmentCaptured">>,
     <<"HeadersParsed", "NoBody">>}
    \cup {<<s, "Closed">> : s \in {"Connecting", "Handshaking", "RequestSent", "HeadersParsed",
                                    "BodyFragmentCaptured", "NoBody"}}

\* C29: every exchange (check, download, report) changes state only along
\* Connecting, Handshaking, RequestSent, HeadersParsed, BodyFragmentCaptured
\* or NoBody, Closed, one state at a time, or to Closed from any of them; it
\* leaves Closed never (no step of fetch() runs for an exchange that was
\* released) and is Closed or not begun when update() returns. The
\* request is written on a session whose handshake succeeded and after it in
\* the call log, and a response is read only after a successful write.
C29_ExchangeStateOrder ==
    /\ [][\A ph \in Phases :
            \/ ExchangeState(ph)' = ExchangeState(ph)
            \/ <<ExchangeState(ph), ExchangeState(ph)'>> \in ExchangeOrder]_vars
    /\ [](\A ph \in Phases :
            /\ pc = "done" => ExchangeState(ph) \in {"NotBegun", "Closed"}
            /\ (phase = ph /\ pc \in {"fetch", "connect", "tls", "handshake"} \cup InUse) => ~Has("free", ph)
            /\ \A i \in 1..Len(sent) : sent[i].fp.connected
            /\ \A w \in Positions(<<"SSL_write", ph>>) : \E h \in Positions(<<"SSL_connect", ph>>) : h < w
            /\ \A r \in Positions(<<"SSL_read", ph>>) :
                 /\ \E w \in Positions(<<"SSL_write", ph>>) : w < r
                 /\ \E i \in 1..Len(sent) : sent[i].phase = ph /\ sent[i].ok)
\* a finished run whose check exchange captured a body fragment, whose
\* download exchange had none and whose report exchange failed in Handshaking
C29_Witness ==
    /\ pc = "done"
    /\ Has("memdup", "check") /\ Step("check")
    /\ ~Has("memdup", "download") /\ Step("download")
    /\ Has("SSL_connect", "report") /\ ~Has("SSL_write", "report") /\ Has("free", "report")

(* ---- C30 -------------------------------------------------------------------- *)
\* the text of the Content-Length header line of a header block, after the
\* colon and the blanks that follow it and up to the end of the line; NULL
\* when no header line has that name
LengthLine(head) ==
    LET name == s_crlf \o s_contentLength \o <<":">>
        at == StrStr(head, name)
        rest == From(head, at + Len(name))
        line == SubSeq(rest, 1, StrStr(rest, s_crlf) - 1)
        sp == {i \in 1..Len(line) : \A j \in 1..i : line[j] = " "}
    IN  IF at = 0 \/ StrStr(rest, s_crlf) = 0 THEN NULL ELSE From(line, Cardinality(sp) + 1)
\* the text v is a decimal number between 0 and the ceiling of 100 MiB
WithinCeiling(v) ==
    /\ v # <<>> /\ Len(v) <= 9
    /\ \A i \in 1..Len(v) : IsDigit(v[i])
    /\ Atoi(v) <= MAX_CONTENT_LENGTH
\* a 200 response whose header block ends with the separator and holds a
\* Content-Length header of digits only, with a value within the ceiling
WellFormedLength(head) ==
    /\ ResponseStatus(head) = 200
    /\ StrStr(head, s_sep) # 0
    /\ LengthLine(head) # NULL /\ WithinCeiling(LengthLine(head))

\* C30: when the first read holds a 200 response with a well-formed
\* Content-Length header within the ceiling, parseResponseBody does not fail
\* and fetch() goes on to the body, whether the header is followed by other
\* headers or is the last one before the blank line.
C30_LengthAcceptedAnywhere ==
    [][(pc = "parse" /\ WellFormedLength(srv[phase].head)) => pc' # "cleanup"]_vars

(* ---- C31 -------------------------------------------------------------------- *)
\* the body update() hands to fetch() in the exchange of phase ph: the check
\* body, nothing for the download, the report body
BodyGiven(ph) ==
    CASE ph = "check" -> CheckBody(args.device, args.product, args.version, args.properties)
      [] ph = "report" -> ReportBody(status, args.device, Declared(k_update))
      [] OTHER -> <<>>

C32_DownloadComplete ==
    /\ [](Step("download") => fs.data = srv.download.body)
    /\ [][(pc = "fetchFile_read" /\ Len(fs.data) < fp.contentLength) => pc' # "verify"]_vars

(* ---- C33 -------------------------------------------------------------------- *)
\* C33: when the download server has sent a 200 response with all
\* Content-Length bytes of the body and keeps the connection open, fetchFile
\* still completes and update() goes on to verify the checksum and returns.
C33_KeepAliveCompletes ==
    (pc = "fetchFile_read" /\ StrStr(srv.download.head, h_keep) # 0 /\ fs.data = srv.download.body)
        ~> (pc = "done")

(* ---- C34 -------------------------------------------------------------------- *)
\* C34: what fetchString returns is the first contentLength bytes of the
\* response body, in the order they arrived: the fragment read with the
\* headers, cut to contentLength when it is longer, then the bytes of the
\* later reads. While it reads, the buffer holds a prefix of the body of at
\* most contentLength bytes and the bytes still to come follow it.
C34_ToMemoryExact ==
    /\ [](pc = "fetchString_read" =>
            /\ Len(buf) <= fp.contentLength
            /\ buf = SubSeq(srv.check.body, 1, Len(buf))
            /\ Len(buf) < fp.contentLength => buf \o wire = srv.check.body)
    /\ [][(pc = "fetchString_read" /\ pc' = "json") =>
            /\ Len(response') = fp.contentLength
            /\ response' = SubSeq(srv.check.body, 1, fp.contentLength)]_vars
    /\ [][(pc = "fetchString" /\ pc' = "json") => (fp.contentLength = 0 /\ response' = <<>>)]_vars
\* a descriptor returned whole by a run that captured a fragment of it with
\* the headers
C34_Witness ==
    /\ pc = "json" /\ response = FullBody
    /\ Has("memdup", "check") /\ Has("SSL_read", "check")
    /\ wire = <<>>

(* ---- C35 -------------------------------------------------------------------- *)
\* C35: fetchString leaves its read loop before contentLength bytes are in
\* the buffer only by failing: the step that does so (a read of zero bytes
\* or an error) releases the buffer, returns no text and is the last step of
\* the block, and update() then returns -1 with no descriptor parsed, no
\* further exchange and the file as it was. With all bytes in, it returns them.
C35_ShortReadFails ==
    /\ [][(pc = "fetchString_read" /\ pc' # pc) =>
            IF Len(buf) < fp.contentLength
            THEN pc' = "cleanup" /\ buf' = <<>> /\ response' = NULL /\ rc' = -1 /\ steps' = steps
            ELSE pc' = "json" /\ response' = buf]_vars
    /\ []((phase = "check" /\ ~Step("check") /\ pc = "done") =>
            /\ rc = -1 /\ response = NULL /\ downloadUrl = NULL
            /\ OnlyCheckPhase /\ FileUntouched /\ ~fp.live)
C35_Witness ==
    /\ pc = "done" /\ rc = -1
    /\ Has("free(body)", "check") /\ ~Step("check")
    /\ srv.check.body = FullBody /\ Len(wire) > 0

(* ---- C36 -------------------------------------------------------------------- *)
\* C36: a write in fetchFile that stores fewer bytes than it was asked to,
\* be it the write of the fragment captured with the headers or the write
\* of a chunk read later, ends the download as a failure: the descriptor is
\* closed, update() leaves its block, and a run that wrote and did not
\* complete the download returns -1.
C36_ShortWriteFails ==
    /\ [][(pc = "fetchFile_write" /\ fp.body # NULL /\
            Len(fs'.data) - Len(fs.data) <
                (IF fp.bodyLength < fp.contentLength THEN fp.bodyLength ELSE fp.contentLength))
           => (pc' = "cleanup" /\ ~fdOpen')]_vars
    /\ [][(pc = "fetchFile_read" /\ Len(fs'.data) - Len(fs.data) < Len(wire) - Len(wire'))
           => (pc' = "cleanup" /\ ~fdOpen')]_vars
    /\ []((pc = "done" /\ Has("write", "download") /\ ~Step("download")) => rc = -1)

(* ---- C37 -------------------------------------------------------------------- *)
\* C37: fetch() yields no session for a 200 response whose Content-Length
\* header has a value that is not a decimal number between 0 and 100 MiB:
\* an empty value, a word, digits followed by a letter, a negative number, a
\* number beyond the range of a 32-bit int.
C37_MalformedLengthFails ==
    \A ph \in Phases :
        (/\ srv[ph] # NoResponse
         /\ ResponseStatus(srv[ph].head) = 200
         /\ LengthLine(srv[ph].head) # NULL
         /\ ~WithinCeiling(LengthLine(srv[ph].head))) => ~Yielded(ph)

(* ---- C38 -------------------------------------------------------------------- *)
\* C38: whatever another process does to the entry at the destination path
\* before, between and after the unlink, open and fstat of fetchFile, the
\* descriptor fetchFile writes to refers to a regular file that its own open
\* call created, every byte it writes goes to that file, and no object that
\* existed before or that the other process made (a file, the target of a
\* symbolic link, a FIFO) gets a byte or is truncated.
C38_WritesOnlyToOwnFile ==
    pure.fn = "fetchFile" =>
        /\ pure.fd # 0 => (pure.inodes[pure.fd].kind = "reg" /\ pure.inodes[pure.fd].by = "fetchFile")
        /\ \A i \in pure.wrote : pure.inodes[i].kind = "reg" /\ pure.inodes[i].by = "fetchFile"
        /\ \A i \in 1..Len(pure.inodes) :
             pure.inodes[i].by # "fetchFile" => pure.inodes[i].data = (IF i = 1 THEN Victim.data ELSE <<>>)
        /\ Cardinality({i \in 1..Len(pure.inodes) : pure.inodes[i].by = "fetchFile"}) <= 1
\* the body stored and the file closed although the other process put a
\* symbolic link to the file of the other owner at the path after the open
C38_Witness ==
    /\ pure.fn = "fetchFile" /\ pure.at = "closed"
    /\ pure.moves > 0 /\ pure.entry # 0
    /\ pure.inodes[pure.entry].kind = "symlink" /\ pure.inodes[pure.entry].to = 1
    /\ \E i \in pure.wrote : pure.inodes[i].data = GoodImage

(* ---- C39 -------------------------------------------------------------------- *)
\* the quote at position i of text is escaped: an odd number of backslashes
\* stands right before it
Escaped(text, i) ==
    LET run == {j \in 1..(i - 1) : \A k \in j..(i - 1) : text[k] = "\\"}
    IN  Cardinality(run) % 2 = 1
\* the value of a quoted field that starts after the opening quote at position
\* open: what stands before the next quote that is not escaped
UpToUnescapedQuote(text, open) ==
    LET ends == {i \in (open + 1)..Len(text) : text[i] = "\"" /\ ~Escaped(text, i)}
    IN  SubSeq(text, open + 1, (IF ends = {} THEN Len(text) + 1 ELSE Min(ends)) - 1)

\* C39: for a key that is found and whose value opens with a quote, json()
\* returns what stands between that quote and the next quote that is not
\* escaped by a backslash.
C39_EscapedQuoteKept ==
    pure.fn = "json" =>
        \A i \in 1..Len(pure.values) :
            LET keybuf == <<"\"">> \o pure.key \o <<"\"", ":">>
                at == StrStr(pure.text, keybuf)
                open == at + Len(keybuf)
            IN  (Len(keybuf) < 80 /\ at # 0 /\ open <= Len(pure.text) /\ pure.text[open] = "\"")
                    => pure.values[i] = UpToUnescapedQuote(pure.text, open)

(* ---- C40 -------------------------------------------------------------------- *)
\* C40: when update() comes to post the report (the check URL was built
\* from the host, the update was downloaded, verified and applied) and the
\* report body and headers fit their buffers, the report exchange is started:
\* the length of the host does not stop it.
C40_HostFitsReport ==
    [][(/\ pc = "postReport"
        /\ Len(ReportBody(status, args.device, update)) < UBSIZE
        /\ Len(AuthHeaders(args.token)) < HEADERS_SIZE) => pc' = "fetch"]_vars

====
